---- MODULE Spec2Model ----
(***************************************************************************)
(* Chat streaming proxy of wayfinder_supply_co (backend/routers/chat.py).  *)
(*                                                                         *)
(* chat_endpoint validates the request, chat_stream runs the optional      *)
(* vision phase and then forwards stream_agent_response, which decodes the *)
(* upstream Agent Builder SSE stream chunk by chunk, keeps the ledger of   *)
(* reasoning / tool_call steps and emits one client event per frame.       *)
(*                                                                         *)
(* JSON values are modelled as strings: "ABSENT" is a missing key, "NULL"  *)
(* is JSON null, "{}" the empty object, anything else an opaque value.     *)
(***************************************************************************)
EXTENDS Integers, Sequences, FiniteSets, TLC

VARIABLES
    request,             \* the HTTP request: JSON body fields and legacy query parameters
    pc,                  \* position of the request: where the generator is suspended
    ending,              \* how stream_agent_response returned ("none" while running)
    msg, uid, aid, image, preanalysis,   \* chat_endpoint locals (chat.py 141-160)
    vision_ready,        \* what cm.is_vision_ready() answers for this request
    vision_context, vision_description, vision_structured_data, vision_error,
    visionCalls,         \* number of calls made to the vision collaborator
    connOpened,          \* number of upstream connections opened (client.stream)
    connOpen,            \* inside the "async with client.stream(...)" block
    query,               \* payload["input"] of the upstream request
    buffer,              \* stream_agent_response: decoded text not yet split
    current_event_type,  \* stream_agent_response: last "event: " line seen
    steps,               \* stream_agent_response: the step ledger
    conversation_id,     \* stream_agent_response: last conversation id seen
    events,              \* every SSE event yielded to the client, in order
    frames,              \* history: the upstream lines processed so far
    upstream, pos,       \* byte-level runs: the upstream body and the read offset
    peer,                \* a second request served concurrently: its own locals
    cancelRequested,     \* history: the client went away and the generator was cancelled
    error_chunks,        \* stream_agent_response: the chunks read of a non-200 body
    sync,                \* one call of a synchronous extraction endpoint: its locals and answer
    vlm,                 \* vision_service.analyze_image: the locals of its retry loop
    held                 \* the generator is suspended at a yield: the consumer holds the last event

vars == << request, pc, ending, msg, uid, aid, image, preanalysis, vision_ready,
           vision_context, vision_description, vision_structured_data,
           vision_error, visionCalls, connOpened, query, buffer,
           current_event_type, steps, conversation_id, events, frames,
           upstream, pos, connOpen, peer, cancelRequested, error_chunks,
           sync, vlm, held >>

reqVars == << request, msg, uid, aid, image, preanalysis, vision_ready >>
visionVars == << vision_context, vision_description, vision_structured_data,
                 vision_error, visionCalls >>
byteVars == << upstream, pos >>

-----------------------------------------------------------------------------
(* Bounds *)

MaxFrames == 3

\* The body of a non-200 answer arrives in at most this many chunks.
MaxErrorChunks == 2

-----------------------------------------------------------------------------
(* JSON payloads of upstream data lines *)

\* Python truthiness of a JSON value (bool(x)).
Truthy(v) == v \notin {"ABSENT", "NULL", "{}", "[]", "", "0", "false"}

\* dict.get(key, default) on a field that may be missing.
GetOr(v, default) == IF v = "ABSENT" THEN default ELSE v

\* dict.get(key): a missing key reads as None.
Get(v) == GetOr(v, "NULL")

NoError == [present |-> FALSE, isdict |-> FALSE, message |-> "ABSENT",
            code |-> "ABSENT", text |-> "ABSENT"]
ErrRateLimited == [present |-> TRUE, isdict |-> TRUE, message |-> "rate limited",
                   code |-> "429", text |-> "ABSENT"]
ErrString == [present |-> TRUE, isdict |-> FALSE, message |-> "ABSENT",
              code |-> "ABSENT", text |-> "expired key"]

\* A JSON object without keys. shape is the type of the top-level JSON value,
\* envelope the value under the top-level "data" key; the other fields are
\* the keys of the payload proper (inside the envelope when there is one).
Obj == [shape |-> "object", error |-> NoError, envelope |-> "ABSENT",
        conversation_id |-> "ABSENT", reasoning |-> "ABSENT",
        transient |-> "ABSENT", results |-> "ABSENT",
        tool_call_id |-> "ABSENT", tool_id |-> "ABSENT", params |-> "ABSENT",
        text_chunk |-> "ABSENT", message_content |-> "ABSENT",
        round |-> "ABSENT"]

Wrapped(p) == [p EXCEPT !.envelope = "object"]

ToolCall(id, tool, params) ==
    [Obj EXCEPT !.tool_call_id = id, !.tool_id = tool, !.params = params]
ToolResult(id, results) ==
    [Obj EXCEPT !.tool_call_id = id, !.results = results]
Reasoning(text, transient) ==
    [Obj EXCEPT !.reasoning = text, !.transient = transient]

CallIds == {"t1", "t2"}

Payloads ==
    { [Obj EXCEPT !.conversation_id = "c1"],
      Wrapped([Obj EXCEPT !.conversation_id = "c2"]),
      Reasoning("r1", "ABSENT"),
      Reasoning("filler", "true"),
      [Obj EXCEPT !.conversation_id = "c1", !.reasoning = "filler",
                  !.transient = "true"],
      ToolCall("t1", "search", "{}"),
      ToolCall("t1", "search", "{q:tent}"),
      Wrapped(ToolCall("t1", "search", "{q:stove}")),
      ToolCall("t1", "ABSENT", "{q:boots}"),
      ToolCall("t2", "search", "ABSENT"),
      ToolResult("t1", "[p1]"),
      Wrapped(ToolResult("t1", "[p2]")),
      [Obj EXCEPT !.tool_call_id = "t1", !.tool_id = "search",
                  !.params = "{q:tent}", !.results = "[p3]"],
      [Obj EXCEPT !.text_chunk = "Hel", !.message_content = "Hello"],
      [Obj EXCEPT !.round = "{response:{message:Hello}}",
                  !.message_content = "Hi"],
      Wrapped([Obj EXCEPT !.round = "{response:{message:Hello}}"]),
      [Obj EXCEPT !.error = ErrRateLimited],
      [Obj EXCEPT !.error = ErrString, !.conversation_id = "c1"],
      [Obj EXCEPT !.shape = "array"] }

-----------------------------------------------------------------------------
(* format_sse_event and the step ledger *)

\* format_sse_event(event_type, data): the JSON envelope {type, data} of one
\* "data: ...\n\n" record of the response.
format_sse_event(event_type, data) == [type |-> event_type, data |-> data]

ReasoningStep(text) ==
    [type |-> "reasoning", reasoning |-> text, tool_call_id |-> "ABSENT",
     tool_id |-> "ABSENT", params |-> "ABSENT", results |-> "ABSENT"]

ToolCallStep(id, tool, params) ==
    [type |-> "tool_call", reasoning |-> "ABSENT", tool_call_id |-> id,
     tool_id |-> tool, params |-> params, results |-> "[]"]

\* Mutant of FindStep: the lookup compares the newest step only.
FindStep_LastOnly(ledger, tool_call_id) ==
    IF Len(ledger) > 0 /\ Get(ledger[Len(ledger)].tool_call_id) = tool_call_id
    THEN Len(ledger) ELSE 0

\* for step in steps: if step.get("tool_call_id") == tool_call_id: ... break
\* The index of the first such step, 0 when the loop finds none.
FindStep(ledger, tool_call_id) ==
    LET hits == {i \in 1..Len(ledger) : Get(ledger[i].tool_call_id) = tool_call_id}
    IN IF hits = {} THEN 0 ELSE CHOOSE i \in hits : \A j \in hits : i <= j

-----------------------------------------------------------------------------
(* One data line whose JSON parsed: chat.py 315-428 *)

\* What the handling of one payload does: the ledger and conversation id after
\* it, the events it yields, and the exception it raises ("none" when none).
Outcome(ledger, conv, out, raised) ==
    [steps |-> ledger, conversation_id |-> conv, out |-> out, raised |-> raised]

HandleError(p, ledger, conv) ==
    LET error_info == p.error
        error_message == IF error_info.isdict
                         THEN GetOr(error_info.message, "Unknown error")
                         ELSE error_info.text
        code == IF error_info.isdict THEN Get(error_info.code) ELSE "NULL"
    IN Outcome(ledger, conv,
               << format_sse_event("error", [error |-> error_message, code |-> code]) >>,
               "none")

\* Mutant of HandleReasoning: the transient flag is not consulted.
HandleReasoning_IgnoreTransient(p, ledger, conv) ==
    Outcome(Append(ledger, ReasoningStep(p.reasoning)), conv,
            << format_sse_event("reasoning", [reasoning |-> p.reasoning]) >>,
            "none")

\* Mutant of HandleReasoning: a text already in the ledger is not recorded again.
HandleReasoning_Dedup(p, ledger, conv) ==
    IF ~Truthy(GetOr(p.transient, "false"))
    THEN Outcome(IF \E k \in 1..Len(ledger) : ledger[k].reasoning = p.reasoning
                 THEN ledger ELSE Append(ledger, ReasoningStep(p.reasoning)),
                 conv,
                 << format_sse_event("reasoning", [reasoning |-> p.reasoning]) >>,
                 "none")
    ELSE Outcome(ledger, conv, << >>, "none")

HandleReasoning(p, ledger, conv) ==
    IF ~Truthy(GetOr(p.transient, "false"))
    THEN Outcome(Append(ledger, ReasoningStep(p.reasoning)), conv,
                 << format_sse_event("reasoning", [reasoning |-> p.reasoning]) >>,
                 "none")
    ELSE Outcome(ledger, conv, << >>, "none")

\* Mutant of HandleToolResult: the result is forwarded but never recorded.
HandleToolResult_NoUpdate(p, ledger, conv) ==
    Outcome(ledger, conv,
            << format_sse_event("tool_result",
                  [tool_call_id |-> p.tool_call_id, results |-> p.results]) >>,
            "none")

\* Mutant of HandleToolResult: a result without a recorded step is dropped.
HandleToolResult_OnlyWhenRecorded(p, ledger, conv) ==
    LET i == FindStep(ledger, p.tool_call_id)
    IN IF i = 0 THEN Outcome(ledger, conv, << >>, "none")
       ELSE Outcome([ledger EXCEPT ![i].results = p.results], conv,
                    << format_sse_event("tool_result",
                          [tool_call_id |-> p.tool_call_id, results |-> p.results]) >>,
                    "none")

HandleToolResult(p, ledger, conv) ==
    LET i == FindStep(ledger, p.tool_call_id)
        updated == IF i = 0 THEN ledger
                   ELSE [ledger EXCEPT ![i].results = p.results]
    IN Outcome(updated, conv,
               << format_sse_event("tool_result",
                     [tool_call_id |-> p.tool_call_id, results |-> p.results]) >>,
               "none")

\* Mutant of HandleToolCall: a first frame with empty params is dropped.
HandleToolCall_DropsEmptyFirst(p, ledger, conv) ==
    LET tool_call_id == Get(p.tool_call_id)
        tool_id == Get(p.tool_id)
        params == GetOr(p.params, "{}")
        i == FindStep(ledger, tool_call_id)
    IN IF ~Truthy(tool_id)
       THEN Outcome(ledger, conv, << >>, "none")
       ELSE IF i # 0
       THEN Outcome(IF Truthy(params) THEN [ledger EXCEPT ![i].params = params]
                                      ELSE ledger,
                    conv, << >>, "none")
       ELSE IF ~Truthy(params)
       THEN Outcome(ledger, conv, << >>, "none")
       ELSE Outcome(Append(ledger, ToolCallStep(tool_call_id, tool_id, params)),
                    conv,
                    << format_sse_event("tool_call",
                          [tool_call_id |-> tool_call_id, tool_id |-> tool_id,
                           params |-> params]) >>,
                    "none")

\* Mutant of HandleToolCall: a repeated frame is forwarded to the client too.
HandleToolCall_EmitsOnUpdate(p, ledger, conv) ==
    LET tool_call_id == Get(p.tool_call_id)
        tool_id == Get(p.tool_id)
        params == GetOr(p.params, "{}")
        i == FindStep(ledger, tool_call_id)
        event == format_sse_event("tool_call",
                    [tool_call_id |-> tool_call_id, tool_id |-> tool_id,
                     params |-> params])
    IN IF ~Truthy(tool_id)
       THEN Outcome(ledger, conv, << >>, "none")
       ELSE IF i # 0
       THEN Outcome(IF Truthy(params) THEN [ledger EXCEPT ![i].params = params]
                                      ELSE ledger,
                    conv, << event >>, "none")
       ELSE Outcome(Append(ledger, ToolCallStep(tool_call_id, tool_id, params)),
                    conv, << event >>, "none")

\* Mutant of HandleToolCall: a repeated frame overwrites params even when its
\* own params are empty.
HandleToolCall_AlwaysOverwrite(p, ledger, conv) ==
    LET tool_call_id == Get(p.tool_call_id)
        tool_id == Get(p.tool_id)
        params == GetOr(p.params, "{}")
        i == FindStep(ledger, tool_call_id)
    IN IF ~Truthy(tool_id)
       THEN Outcome(ledger, conv, << >>, "none")
       ELSE IF i # 0
       THEN Outcome([ledger EXCEPT ![i].params = params], conv, << >>, "none")
       ELSE Outcome(Append(ledger, ToolCallStep(tool_call_id, tool_id, params)),
                    conv,
                    << format_sse_event("tool_call",
                          [tool_call_id |-> tool_call_id, tool_id |-> tool_id,
                           params |-> params]) >>,
                    "none")

HandleToolCall(p, ledger, conv) ==
    LET tool_call_id == Get(p.tool_call_id)
        tool_id == Get(p.tool_id)
        params == GetOr(p.params, "{}")
        i == FindStep(ledger, tool_call_id)
    IN IF ~Truthy(tool_id)
       THEN Outcome(ledger, conv, << >>, "none")
       ELSE IF i # 0
       THEN Outcome(IF Truthy(params) THEN [ledger EXCEPT ![i].params = params]
                                      ELSE ledger,
                    conv, << >>, "none")
       ELSE Outcome(Append(ledger, ToolCallStep(tool_call_id, tool_id, params)),
                    conv,
                    << format_sse_event("tool_call",
                          [tool_call_id |-> tool_call_id, tool_id |-> tool_id,
                           params |-> params]) >>,
                    "none")

\* round_data = data["round"]; "response" in round_data and "message" in ...
RoundIsContainer(r) == r \notin {"NULL", "7"}
RoundHasMessage(r) == r = "{response:{message:Hello}}"
RoundMessage(r) == IF RoundHasMessage(r) THEN "Hello" ELSE "ABSENT"

HandleRound(p, ledger, conv) ==
    IF ~RoundIsContainer(p.round)
    THEN Outcome(ledger, conv, << >>, "TypeError")
    ELSE IF RoundHasMessage(p.round)
    THEN Outcome(ledger, conv,
                 << format_sse_event("message_complete",
                       [message_content |-> RoundMessage(p.round)]) >>,
                 "none")
    ELSE Outcome(ledger, conv, << >>, "none")

\* Mutant of Classify: tool_call_id alone is tested before results together
\* with tool_call_id.
Classify_ToolCallFirst(p) ==
    IF p.shape # "object" THEN "AttributeError"
    ELSE IF p.error.present THEN "upstream_error"
    ELSE IF p.envelope \notin {"ABSENT", "object"} THEN "TypeError"
    ELSE IF p.conversation_id # "ABSENT" THEN "conversation_id"
    ELSE IF p.reasoning # "ABSENT" THEN "reasoning"
    ELSE IF p.tool_call_id # "ABSENT" THEN "tool_call"
    ELSE IF p.results # "ABSENT" /\ p.tool_call_id # "ABSENT" THEN "tool_result"
    ELSE IF p.text_chunk # "ABSENT" THEN "text_chunk"
    ELSE IF p.message_content # "ABSENT" THEN "message_complete"
    ELSE IF p.round # "ABSENT" THEN "round_complete"
    ELSE "none"

\* The conditions of the if / elif chain, in the order the code tests them:
\* the branch taken for payload p, or the exception the test itself raises.
Classify(p) ==
    IF p.shape # "object" THEN "AttributeError"            \* raw_data.get
    ELSE IF p.error.present THEN "upstream_error"
    ELSE IF p.envelope \notin {"ABSENT", "object"} THEN "TypeError"   \* "..." in data
    ELSE IF p.conversation_id # "ABSENT" THEN "conversation_id"
    ELSE IF p.reasoning # "ABSENT" THEN "reasoning"
    ELSE IF p.results # "ABSENT" /\ p.tool_call_id # "ABSENT" THEN "tool_result"
    ELSE IF p.tool_call_id # "ABSENT" THEN "tool_call"
    ELSE IF p.text_chunk # "ABSENT" THEN "text_chunk"
    ELSE IF p.message_content # "ABSENT" THEN "message_complete"
    ELSE IF p.round # "ABSENT" THEN "round_complete"
    ELSE "none"

\* The body of the try block for one parsed payload p (raw_data).
HandleData(p, ledger, conv) ==
    LET kind == Classify(p)
    IN CASE kind \in {"AttributeError", "TypeError"} ->
              Outcome(ledger, conv, << >>, kind)
         [] kind = "upstream_error" -> HandleError(p, ledger, conv)
         [] kind = "conversation_id" ->
              Outcome(ledger, p.conversation_id,
                      << format_sse_event("conversation_started",
                            [conversation_id |-> p.conversation_id]) >>,
                      "none")
         [] kind = "reasoning" -> HandleReasoning(p, ledger, conv)
         [] kind = "tool_result" -> HandleToolResult(p, ledger, conv)
         [] kind = "tool_call" -> HandleToolCall(p, ledger, conv)
         [] kind = "text_chunk" ->
              Outcome(ledger, conv,
                      << format_sse_event("message_chunk",
                            [text_chunk |-> p.text_chunk]) >>,
                      "none")
         [] kind = "message_complete" ->
              Outcome(ledger, conv,
                      << format_sse_event("message_complete",
                            [message_content |-> p.message_content]) >>,
                      "none")
         [] kind = "round_complete" -> HandleRound(p, ledger, conv)
         [] OTHER -> Outcome(ledger, conv, << >>, "none")

-----------------------------------------------------------------------------
(* Upstream lines, as the while loop of chat.py 301-431 sees them *)

\* A line after strip(): kind says which test it passes ("event" for the
\* "event: " marker, "data" for the "data: " marker, "blank", "other"), etype
\* is the text after the event marker (as code points), parses says whether
\* json.loads accepts the text after the data marker, payload is its value.
Line(kind, etype, parses, payload) ==
    [kind |-> kind, etype |-> etype, parses |-> parses, payload |-> payload]

EventLine == Line("event", << 109, 115, 103 >>, FALSE, Obj)     \* event: msg
BadJsonLine == Line("data", << >>, FALSE, Obj)                   \* data: {bad
DataLine(p) == Line("data", << >>, TRUE, p)

Lines == {EventLine, BadJsonLine}
            \cup {DataLine(p) : p \in Payloads}

\* json.loads(data_str) succeeds
JsonParses(line) == line.parses

\* Mutant of ProcessLine: json.JSONDecodeError is not caught inside the loop.
ProcessLine_BadJsonRaises(line, etype, ledger, conv) ==
    IF line.kind = "event"
    THEN [current_event_type |-> line.etype] @@ Outcome(ledger, conv, << >>, "none")
    ELSE IF line.kind = "data" /\ JsonParses(line)
    THEN [current_event_type |-> etype] @@ HandleData(line.payload, ledger, conv)
    ELSE IF line.kind = "data"
    THEN [current_event_type |-> etype] @@ Outcome(ledger, conv, << >>, "JSONDecodeError")
    ELSE [current_event_type |-> etype] @@ Outcome(ledger, conv, << >>, "none")

\* One complete line taken from the buffer: the new current_event_type, the
\* ledger, the conversation id, the events yielded and the exception raised.
ProcessLine(line, etype, ledger, conv) ==
    IF line.kind = "event"
    THEN [current_event_type |-> line.etype] @@ Outcome(ledger, conv, << >>, "none")
    ELSE IF line.kind = "data" /\ JsonParses(line)
    THEN [current_event_type |-> etype] @@ HandleData(line.payload, ledger, conv)
    ELSE [current_event_type |-> etype] @@ Outcome(ledger, conv, << >>, "none")

-----------------------------------------------------------------------------
(* stream_agent_response: chat.py 260-444 *)

\* ChatRequest.vision_analysis / the structured vision record. present = FALSE
\* is None; a present record whose fields are all "ABSENT" is the empty dict.
NoAnalysis == [present |-> FALSE, description |-> "ABSENT", product_type |-> "ABSENT",
               category |-> "ABSENT", subcategory |-> "ABSENT", key_terms |-> "ABSENT"]

\* The request of a run that starts at stream_agent_response: text only.
TextRequest == [has_body |-> TRUE, message |-> "find a tent", user_id |-> "user_new",
                agent_id |-> "wayfinder-search-agent", image_base64 |-> "ABSENT",
                vision_analysis |-> NoAnalysis, q_message |-> "ABSENT",
                q_user_id |-> "ABSENT", q_agent_id |-> "ABSENT"]

\* contextual_message = f"{vision_context}[User ID: {uid}] {msg}"   (chat.py 241)
ContextualMessage(context, user, text) == context \o "[User ID: " \o user \o "] " \o text

\* except httpx.TimeoutException / httpx.RequestError / Exception (439-444)
FailureKinds == {"timeout", "request_error", "exception"}
FailureText(kind) ==
    CASE kind = "timeout" -> "Request timeout"
      [] kind = "request_error" -> "Connection error"
      [] OTHER -> "Unexpected error"
FailureEvent(kind) == format_sse_event("error", [error |-> FailureText(kind)])

CompletionEvent(conv, ledger) ==
    format_sse_event("completion", [conversation_id |-> conv, steps |-> ledger])

\* One call of parse_trip_context_endpoint or extract_itinerary_endpoint:
\* full_response is kept as the sequence of the texts it is the
\* concatenation of; status is the HTTP status the client receives (0 while
\* the call runs) with detail or result. NoSync: no such call.
SyncState(endpoint, position, full_response, nlines, upstream_status, status, detail, result) ==
    [endpoint |-> endpoint, pc |-> position, full_response |-> full_response,
     nlines |-> nlines, upstream_status |-> upstream_status, status |-> status,
     detail |-> detail, result |-> result]
NoResult == [destination |-> "ABSENT", dates |-> "ABSENT", activity |-> "ABSENT",
             days |-> "ABSENT"]
NoSync == SyncState("none", "absent", << >>, 0, 0, 0, "", NoResult)

\* The locals of analyze_image (vision_service.py 91-92) with the history of
\* what its HTTP attempts met, and how the call ended. NoVlm: no such call.
VlmState(position, attempt, last_error, made, calls, outcome) ==
    [pc |-> position, attempt |-> attempt, last_error |-> last_error,
     made |-> made, calls |-> calls, outcome |-> outcome]
VlmOutcome(kind, exc_type, text) == [kind |-> kind, exc_type |-> exc_type, text |-> text]
NoVlm == VlmState("absent", 0, "None", << >>, 0, VlmOutcome("none", "", ""))

\* The locals of one more call of stream_agent_response running at the same
\* time (chat.py 292-295) with what it has read and yielded. NoPeer: no such
\* call is running.
PeerState(position, etype, ledger, conv, out, read, how) ==
    [pc |-> position, current_event_type |-> etype, steps |-> ledger,
     conversation_id |-> conv, events |-> out, frames |-> read, ending |-> how]
NoPeer == PeerState("absent", << >>, << >>, "", << >>, << >>, "none")

\* bytes.decode(): UTF-8 to code points; raises UnicodeDecodeError on a
\* truncated or malformed sequence.
IsCont(b, i) == i <= Len(b) /\ b[i] \in 128..191

\* Number of bytes of the sequence that lead byte x opens, 0 for a byte that
\* cannot open one.
Utf8Width(x) ==
    IF x < 128 THEN 1
    ELSE IF x \in 194..223 THEN 2
    ELSE IF x \in 224..239 THEN 3
    ELSE IF x \in 240..244 THEN 4
    ELSE 0

Utf8Code(b, i) ==
    CASE Utf8Width(b[i]) = 1 -> b[i]
      [] Utf8Width(b[i]) = 2 -> (b[i] - 192) * 64 + (b[i + 1] - 128)
      [] Utf8Width(b[i]) = 3 -> (b[i] - 224) * 4096 + (b[i + 1] - 128) * 64
                                   + (b[i + 2] - 128)
      [] OTHER -> (b[i] - 240) * 262144 + (b[i + 1] - 128) * 4096
                                   + (b[i + 2] - 128) * 64 + (b[i + 3] - 128)

Utf8Decode(b) ==
    LET leads == {i \in 1..Len(b) : ~IsCont(b, i)}
        wellFormed ==
            /\ \A i \in 1..Len(b) : IsCont(b, i) =>
                   \E j \in leads : j < i /\ i < j + Utf8Width(b[j])
            /\ \A j \in leads :
                   /\ Utf8Width(b[j]) > 0
                   /\ \A k \in 1..(Utf8Width(b[j]) - 1) : IsCont(b, j + k)
        nth(k) == CHOOSE i \in leads : Cardinality({j \in leads : j <= i}) = k
    IN IF \A i \in 1..Len(b) : b[i] < 128
       THEN [ok |-> TRUE, text |-> b]          \* ASCII decodes to itself
       ELSE IF wellFormed
       THEN [ok |-> TRUE,
             text |-> [k \in 1..Cardinality(leads) |-> Utf8Code(b, nth(k))]]
       ELSE [ok |-> FALSE, text |-> << >>]

\* data: {"error":"x"}\n
BodyErrorFrame ==
    << 100, 97, 116, 97, 58, 32, 123, 34, 101, 114, 114, 111,
       114, 34, 58, 34, 120, 34, 125, 10 >>

\* Bodies of a non-200 answer, as bytes: "down"; a body that looks like a
\* frame; and one byte that is not UTF-8.
ErrorBodies == { << 100, 111, 119, 110 >>, BodyErrorFrame, << 255 >> }

\* chat.py 289: the literal part of the f-string and the decoded body that
\* is formatted into it.
ApiErrorEvent(error_text) ==
    format_sse_event("error", [error |-> "Agent Builder API error: ",
                               error_text |-> error_text])

\* Mutant of NonOkAnswer: the body of a non-200 answer is handled as frames
\* would be, and the completion event follows the error event.
NonOkAnswer_ThenCompletion(body, conv, ledger) ==
    LET decoded == Utf8Decode(body)
    IN IF decoded.ok
       THEN [out |-> << ApiErrorEvent(decoded.text), CompletionEvent(conv, ledger) >>,
             ending |-> "non200"]
       ELSE [out |-> << FailureEvent("exception") >>, ending |-> "raised"]

\* chat.py 284-290: the whole body is read and decoded, one error event is
\* yielded and the generator returns; a body that is not UTF-8 raises
\* UnicodeDecodeError, which except Exception (443-444) reports.
NonOkAnswer(body, conv, ledger) ==
    LET decoded == Utf8Decode(body)
    IN IF decoded.ok
       THEN [out |-> << ApiErrorEvent(decoded.text) >>, ending |-> "non200"]
       ELSE [out |-> << FailureEvent("exception") >>, ending |-> "raised"]

\* The generator is inside the chunk loop and waits for the next chunk: it
\* is not suspended at a yield (the buffer then holds no complete line).
AwaitingChunk == pc = "streaming" /\ ~held

\* b"".join(error_chunks)
RECURSIVE Join(_)
Join(chunks) == IF chunks = << >> THEN << >> ELSE Head(chunks) \o Join(Tail(chunks))

\* client.stream(...) answers: 200 opens the frame loop with fresh request
\* state and waits for the first chunk; any other status starts the loop
\* that collects the body (chat.py 285-286) and waits for its first chunk,
\* inside the "async with client.stream(...)" block.
Connect ==
    /\ pc = "connect"
    /\ ~held
    /\ connOpened' = connOpened + 1
    /\ \E status \in {200, 500} :
         IF status = 200
         THEN /\ pc' = "streaming"
              /\ connOpen' = TRUE
              /\ buffer' = << >>
              /\ current_event_type' = << >>
              /\ steps' = << >>
              /\ conversation_id' = ""
              /\ UNCHANGED << ending, events, error_chunks >>
         ELSE /\ pc' = "reading_error_body"
              /\ connOpen' = TRUE
              /\ error_chunks' = << >>
              /\ UNCHANGED << ending, events, buffer, current_event_type, steps,
                              conversation_id >>
    /\ UNCHANGED << reqVars, visionVars, query, frames, byteVars, peer,
                    cancelRequested, sync, vlm >>
    /\ held' = FALSE

\* One chunk of the body of a non-200 answer arrives and is appended to
\* error_chunks (chat.py 286-287); the next one is awaited. The body arrives
\* in at most MaxErrorChunks chunks: the last one allowed completes it.
RecvErrorChunk ==
    /\ pc = "reading_error_body"
    /\ Len(error_chunks) < MaxErrorChunks
    /\ \E body \in ErrorBodies :
         LET got == Join(error_chunks)
         IN /\ Len(got) < Len(body)
            /\ SubSeq(body, 1, Len(got)) = got
            /\ \E n \in 1..(Len(body) - Len(got)) :
                  /\ Len(error_chunks) + 1 = MaxErrorChunks
                        => n = Len(body) - Len(got)
                  /\ error_chunks' = Append(error_chunks,
                                         SubSeq(body, Len(got) + 1, Len(got) + n))
    /\ UNCHANGED << reqVars, visionVars, pc, ending, connOpened, connOpen, query,
                    buffer, current_event_type, steps, conversation_id, events,
                    frames, byteVars, peer, cancelRequested, sync, vlm, held >>

\* The body of a non-200 answer ends: the chunks are joined and decoded and
\* the error event is yielded (chat.py 288-289), the generator being
\* suspended inside the "async with client.stream(...)" block until it is
\* resumed; a body that is not UTF-8 leaves the block through except
\* Exception (443-444).
ErrorBodyEnd ==
    /\ pc = "reading_error_body"
    /\ Join(error_chunks) \in ErrorBodies
    /\ LET r == NonOkAnswer(Join(error_chunks), conversation_id, steps)
       IN /\ pc' = "finishing"
          /\ connOpen' = (r.ending = "non200")
          /\ ending' = r.ending
          /\ events' = events \o r.out
    /\ UNCHANGED << reqVars, visionVars, connOpened, query, buffer,
                    current_event_type, steps, conversation_id, frames, byteVars,
                    peer, cancelRequested, error_chunks, sync, vlm >>
    /\ held' = (Len(events') > Len(events))

\* Mutant of TransportFail: the completion event is sent after the error
\* event, as it would be from a finally clause.
TransportFail_ThenCompletion ==
    /\ pc \in {"connect", "reading_error_body", "streaming"}
    /\ ~held
    /\ \E kind \in FailureKinds :
         /\ events' = events \o << FailureEvent(kind),
                                   CompletionEvent(conversation_id, steps) >>
         /\ ending' = kind
    /\ connOpened' = IF pc = "connect" THEN connOpened + 1 ELSE connOpened
    /\ connOpen' = FALSE
    /\ pc' = "finishing"
    /\ UNCHANGED << reqVars, visionVars, query, buffer, current_event_type,
                    steps, conversation_id, frames, byteVars,
                    peer, cancelRequested, error_chunks, sync, vlm >>
    /\ held' = (Len(events') > Len(events))

\* A transport-level exception while connecting or awaiting the next chunk,
\* of the body of a non-200 answer included:
\* it leaves the "async with client.stream(...)" block and an except clause
\* (chat.py 439-444) yields the error event.
TransportFail ==
    /\ pc \in {"connect", "reading_error_body", "streaming"}
    /\ ~held
    /\ \E kind \in FailureKinds :
         /\ events' = Append(events, FailureEvent(kind))
         /\ ending' = kind
    /\ connOpened' = IF pc = "connect" THEN connOpened + 1 ELSE connOpened
    /\ connOpen' = FALSE
    /\ pc' = "finishing"
    /\ UNCHANGED << reqVars, visionVars, query, buffer, current_event_type,
                    steps, conversation_id, frames, byteVars,
                    peer, cancelRequested, error_chunks, sync, vlm >>
    /\ held' = (Len(events') > Len(events))

\* One chunk holding one complete line: the while loop takes it from the
\* buffer and handles it; an exception other than JSONDecodeError leaves the
\* loop through the except clauses.
Deliver(line) ==
    LET r == ProcessLine(line, current_event_type, steps, conversation_id)
    IN /\ frames' = Append(frames, line)
       /\ current_event_type' = r.current_event_type
       /\ steps' = r.steps
       /\ conversation_id' = r.conversation_id
       /\ IF r.raised = "none"
          THEN /\ events' = events \o r.out
               /\ UNCHANGED << pc, ending, connOpen >>
          ELSE /\ events' = (events \o r.out) \o << FailureEvent("exception") >>
               /\ pc' = "finishing"
               /\ ending' = "raised"
               /\ connOpen' = FALSE
       /\ UNCHANGED << reqVars, visionVars, connOpened, query, buffer, byteVars,
                       peer, cancelRequested, error_chunks, sync, vlm >>
       /\ held' = (Len(events') > Len(events))

RecvLine ==
    /\ AwaitingChunk
    /\ Len(frames) < MaxFrames
    /\ \E line \in Lines : Deliver(line)

\* The upstream body ends: the completion event is yielded (chat.py
\* 433-437), the generator being suspended inside the "async with
\* client.stream(...)" block until it is resumed.
EndOfStream ==
    /\ AwaitingChunk
    /\ pos = Len(upstream)
    /\ events' = Append(events, CompletionEvent(conversation_id, steps))
    /\ pc' = "finishing"
    /\ ending' = "completion"
    /\ UNCHANGED connOpen
    /\ UNCHANGED << reqVars, visionVars, connOpened, query, buffer,
                    current_event_type, steps, conversation_id, frames, byteVars,
                    peer, cancelRequested, error_chunks, sync, vlm >>
    /\ held' = (Len(events') > Len(events))

\* The consumer resumes the generator after an event that was not its last,
\* and no complete line is left in the buffer: the generator runs on to its
\* next await (the collaborator call, client.stream(...) or the next chunk).
\* Resumed after the vision result event, chat_stream composes the query
\* (chat.py 241) and enters stream_agent_response (243).
Resume ==
    /\ held
    /\ pc \in {"vision_call", "connect", "streaming"}
    /\ \A i \in 1..Len(buffer) : buffer[i] # 10
    /\ held' = FALSE
    /\ query' = IF pc = "connect" THEN ContextualMessage(vision_context, uid, msg)
                ELSE query
    /\ UNCHANGED << reqVars, visionVars, pc, ending, connOpened, connOpen,
                    buffer, current_event_type, steps, conversation_id, events,
                    frames, byteVars, peer, cancelRequested, error_chunks, sync, vlm >>

\* The consumer resumes the generator after its last event: it returns
\* (chat.py 290, or the end of the function after 437 or 439-444), leaving
\* the "async with" blocks, which release the connection.
Return ==
    /\ pc = "finishing"
    /\ pc' = "done"
    /\ connOpen' = FALSE
    /\ UNCHANGED << reqVars, visionVars, ending, connOpened, query, buffer,
                    current_event_type, steps, conversation_id, events, frames,
                    byteVars, peer, cancelRequested, error_chunks, sync, vlm >>
    /\ held' = FALSE

\* stream_agent_response called with a text-only request.
Init ==
    /\ request = TextRequest
    /\ pc = "connect"
    /\ ending = "none"
    /\ msg = "find a tent"
    /\ uid = "user_new"
    /\ aid = "wayfinder-search-agent"
    /\ image = "ABSENT"
    /\ preanalysis = NoAnalysis
    /\ vision_ready = FALSE
    /\ vision_context = ""
    /\ vision_description = ""
    /\ vision_structured_data = NoAnalysis
    /\ vision_error = ""
    /\ visionCalls = 0
    /\ connOpened = 0
    /\ connOpen = FALSE
    /\ peer = NoPeer
    /\ cancelRequested = FALSE
    /\ error_chunks = << >>
    /\ held = FALSE
    /\ sync = NoSync
    /\ vlm = NoVlm
    /\ query = ContextualMessage("", "user_new", "find a tent")
    /\ buffer = << >>
    /\ current_event_type = << >>
    /\ steps = << >>
    /\ conversation_id = ""
    /\ events = << >>
    /\ frames = << >>
    /\ upstream = << >>
    /\ pos = 0

Next ==
    \/ Connect
    \/ RecvErrorChunk
    \/ ErrorBodyEnd
    \/ TransportFail
    \/ RecvLine
    \/ EndOfStream
    \/ Resume
    \/ Return

Spec == Init /\ [][Next]_vars

-----------------------------------------------------------------------------
(* chat_endpoint and chat_stream: chat.py 126-257 *)

MaxChatFrames == 1

\* Mutant of StrTruthy: the test is "is not None", so an empty string passes.
StrTruthy_NoneOnly(x) == x \notin {"ABSENT", "NULL"}

\* Python truthiness of a str: only the empty string (or None) is false.
StrTruthy(x) == x \notin {"", "ABSENT", "NULL"}

\* not msg.strip()
IsBlank(text) == text \in {"", "   "}

\* bool(d) of an optional dict: None and {} are false.
AnalysisTruthy(a) ==
    /\ a.present
    /\ \E f \in {"description", "product_type", "category", "subcategory", "key_terms"} :
           a[f] # "ABSENT"

DefaultImageMessage == "Find products similar to what's shown in this image"
DefaultAgent == "wayfinder-search-agent"

FullAnalysis == [present |-> TRUE, description |-> "a red dome tent",
                 product_type |-> "tent", category |-> "Camping",
                 subcategory |-> "Tents", key_terms |-> "[dome,red]"]
CategoryOnly == [NoAnalysis EXCEPT !.present = TRUE, !.category = "Camping"]
EmptyAnalysis == [NoAnalysis EXCEPT !.present = TRUE]
TypeOnly == [NoAnalysis EXCEPT !.present = TRUE, !.product_type = "tent"]
PlainDescription(text) == [NoAnalysis EXCEPT !.present = TRUE, !.description = text]

\* The requests the endpoint is run on. A legacy request has no body.
Requests ==
    { [has_body |-> TRUE, message |-> m, user_id |-> "user_42", agent_id |-> a,
       image_base64 |-> i, vision_analysis |-> v, q_message |-> q,
       q_user_id |-> "ABSENT", q_agent_id |-> "ABSENT"] :
         m \in {"", "   ", "find a tent"},
         a \in {DefaultAgent, "trip-planner-agent"},
         i \in {"ABSENT", "img"},
         v \in {NoAnalysis, FullAnalysis, CategoryOnly, EmptyAnalysis, TypeOnly},
         q \in {"ABSENT", "legacy hello"} }
    \cup
    { [has_body |-> FALSE, message |-> "ABSENT", user_id |-> "ABSENT",
       agent_id |-> "ABSENT", image_base64 |-> "ABSENT",
       vision_analysis |-> NoAnalysis, q_message |-> q,
       q_user_id |-> u, q_agent_id |-> "ABSENT"] :
         q \in {"ABSENT", "", "legacy hello"}, u \in {"ABSENT", "user_7"} }

\* chat_endpoint (chat.py 141-160): picks the body or the legacy parameters,
\* rejects a request with neither text nor image with HTTP 400, and replaces
\* a blank text by the default text when an image or analysis came with it.
ChatEndpoint ==
    /\ pc = "received"
    /\ LET r == request
           fromBody == r.has_body /\ (StrTruthy(r.message) \/ StrTruthy(r.image_base64))
           fromQuery == ~fromBody /\ StrTruthy(r.q_message)
           m == IF fromBody THEN r.message ELSE r.q_message
           img == IF fromBody THEN r.image_base64 ELSE "ABSENT"
           pre == IF fromBody THEN r.vision_analysis ELSE NoAnalysis
       IN IF fromBody \/ fromQuery
          THEN /\ uid' = IF fromBody THEN r.user_id
                         ELSE IF StrTruthy(r.q_user_id) THEN r.q_user_id ELSE "user_new"
               /\ aid' = IF fromBody THEN r.agent_id
                         ELSE IF StrTruthy(r.q_agent_id) THEN r.q_agent_id ELSE DefaultAgent
               /\ image' = img
               /\ preanalysis' = pre
               /\ msg' = IF IsBlank(m) /\ (StrTruthy(img) \/ AnalysisTruthy(pre))
                         THEN DefaultImageMessage ELSE m
               /\ pc' = "vision"
               /\ UNCHANGED ending
          ELSE /\ pc' = "rejected"
               /\ ending' = "http400"
               /\ UNCHANGED << msg, uid, aid, image, preanalysis >>
    /\ UNCHANGED << request, vision_ready, visionVars, connOpened, connOpen, query, buffer,
                    current_event_type, steps, conversation_id, events, frames,
                    byteVars, peer, cancelRequested, error_chunks, sync, vlm >>
    /\ held' = (Len(events') > Len(events))

\* The values of chat_stream's vision locals.
VisionState(context, description, structured, error) ==
    [vision_context |-> context, vision_description |-> description,
     vision_structured_data |-> structured, vision_error |-> error]

StructuredContext(product_type, description, category) ==
    "[Vision Context: " \o product_type \o " - " \o description \o "] "
        \o "[Product Category: " \o category \o "] "
PlainContext(description) == "[Vision Context: " \o description \o "] "
CategoryContext(category) == "[Product Category: " \o category \o "] "

\* chat.py 174-190: a pre-supplied analysis is used without any call.
FromPreanalysis(agent, pre) ==
    IF AnalysisTruthy(pre) /\ StrTruthy(pre.description)
    THEN VisionState(IF agent = DefaultAgent
                     THEN StructuredContext(GetOr(pre.product_type, ""),
                                            GetOr(pre.description, ""),
                                            GetOr(pre.category, ""))
                     ELSE PlainContext(GetOr(pre.description, "")),
                     GetOr(pre.description, ""), pre, "")
    ELSE IF AnalysisTruthy(pre) /\ StrTruthy(pre.category)
    THEN VisionState(CategoryContext(pre.category), "", NoAnalysis, "")
    ELSE VisionState("", "", NoAnalysis, "")

UsesPreanalysis(pre) ==
    AnalysisTruthy(pre) /\ (StrTruthy(pre.description) \/ StrTruthy(pre.category))

\* What one call of the vision collaborator can do: return a record
\* (analyze_image_structured), return a description (analyze_image), or raise.
VisionReturn(result) == [ok |-> TRUE, result |-> result, exc_type |-> "", exc_text |-> ""]
VisionRaise(type, text) == [ok |-> FALSE, result |-> NoAnalysis, exc_type |-> type,
                            exc_text |-> text]

\* analyze_image / analyze_image_structured raising: a non-200 answer of the
\* vision API (vision_service.py 107-109) or a transport error (116-124).
RaiseOutcomes ==
    { VisionRaise("ValueError", "Jina VLM API error: 503"),
      VisionRaise("ValueError", "Jina VLM API error: 500"),
      VisionRaise("ReadTimeout", "") }

\* analyze_image returning the description (vision_service.py 111-114).
PlainOutcomes ==
    { VisionReturn(PlainDescription("a red dome tent")),
      VisionReturn(PlainDescription("")) }

\* analyze_image_structured returning the structured record
\* {description, product_type, category, subcategory, key_terms}.
StructuredOutcomes ==
    { VisionReturn(FullAnalysis),
      VisionReturn([FullAnalysis EXCEPT !.description = ""]) }

VisionOutcomes(agent) ==
    RaiseOutcomes \cup (IF agent = DefaultAgent THEN StructuredOutcomes ELSE PlainOutcomes)

\* "503" in str(e)
Mentions503(text) == text = "Jina VLM API error: 503"

\* chat.py 218 (the source writes the dash as U+2014)
WarmingUpMessage ==
    "Image analysis service is warming up - please try again in 30-60 seconds"

\* Mutant of AfterVisionCall: the context is built before the call returns,
\* so a failed call leaves a vision prefix behind.
AfterVisionCall_KeepsContext(agent, outcome) ==
    IF outcome.ok
    THEN IF agent = DefaultAgent
         THEN VisionState(StructuredContext(GetOr(outcome.result.product_type, ""),
                                            GetOr(outcome.result.description, ""),
                                            GetOr(outcome.result.category, "")),
                          GetOr(outcome.result.description, ""), outcome.result, "")
         ELSE VisionState(PlainContext(outcome.result.description),
                          outcome.result.description, NoAnalysis, "")
    ELSE VisionState(PlainContext(""), "", NoAnalysis,
                     IF Mentions503(outcome.exc_text) THEN WarmingUpMessage
                     ELSE "Image analysis unavailable: " \o outcome.exc_type)

\* Mutant of AfterVisionCall: the except clause does not look for "503".
AfterVisionCall_GenericOnly(agent, outcome) ==
    IF outcome.ok
    THEN IF agent = DefaultAgent
         THEN VisionState(StructuredContext(GetOr(outcome.result.product_type, ""),
                                            GetOr(outcome.result.description, ""),
                                            GetOr(outcome.result.category, "")),
                          GetOr(outcome.result.description, ""), outcome.result, "")
         ELSE VisionState(PlainContext(outcome.result.description),
                          outcome.result.description, NoAnalysis, "")
    ELSE VisionState("", "", NoAnalysis,
                     "Image analysis unavailable: " \o outcome.exc_type)

\* chat.py 201-219: the try block around the collaborator call and its
\* except clause.
AfterVisionCall(agent, outcome) ==
    IF outcome.ok
    THEN IF agent = DefaultAgent
         THEN VisionState(StructuredContext(GetOr(outcome.result.product_type, ""),
                                            GetOr(outcome.result.description, ""),
                                            GetOr(outcome.result.category, "")),
                          GetOr(outcome.result.description, ""), outcome.result, "")
         ELSE VisionState(PlainContext(outcome.result.description),
                          outcome.result.description, NoAnalysis, "")
    ELSE VisionState("", "", NoAnalysis,
                     IF Mentions503(outcome.exc_text) THEN WarmingUpMessage
                     ELSE "Image analysis unavailable: " \o outcome.exc_type)

\* chat.py 226-238: the vision result event, if any.
VisionResultEvents(v) ==
    IF StrTruthy(v.vision_description)
    THEN IF AnalysisTruthy(v.vision_structured_data)
         THEN << format_sse_event("vision_analysis",
                    [description |-> v.vision_description,
                     product_type |-> GetOr(v.vision_structured_data.product_type, ""),
                     category |-> GetOr(v.vision_structured_data.category, ""),
                     subcategory |-> GetOr(v.vision_structured_data.subcategory, ""),
                     key_terms |-> GetOr(v.vision_structured_data.key_terms, "[]")]) >>
         ELSE << format_sse_event("vision_analysis",
                    [description |-> v.vision_description]) >>
    ELSE IF StrTruthy(v.vision_error)
    THEN << format_sse_event("vision_error", [error |-> v.vision_error]) >>
    ELSE << >>

\* The end of phase 1 (chat.py 226-238): the result event, if any, is
\* yielded and chat_stream is suspended there; without an event it runs on,
\* composes the query (241) and enters stream_agent_response (243).
FinishVision(v) ==
    /\ vision_context' = v.vision_context
    /\ vision_description' = v.vision_description
    /\ vision_structured_data' = v.vision_structured_data
    /\ vision_error' = v.vision_error
    /\ events' = events \o VisionResultEvents(v)
    /\ query' = IF VisionResultEvents(v) = << >>
                THEN ContextualMessage(v.vision_context, uid, msg)
                ELSE query
    /\ pc' = "connect"

\* Mutant of VisionStart: after the vision_analyzing event the upstream
\* request is started without awaiting the collaborator.
VisionStart_ConnectsFirst ==
    /\ pc = "vision"
    /\ IF ~UsesPreanalysis(preanalysis) /\ StrTruthy(image) /\ vision_ready
       THEN /\ events' = Append(events,
                   format_sse_event("vision_analyzing",
                       [message |-> "Analyzing your image...", agent_id |-> aid]))
            /\ pc' = "connect"
            /\ query' = ContextualMessage("", uid, msg)
            /\ UNCHANGED << vision_context, vision_description,
                            vision_structured_data, vision_error >>
       ELSE FinishVision(FromPreanalysis(aid, preanalysis))
    /\ UNCHANGED << reqVars, visionCalls, ending, connOpened, connOpen, buffer,
                    current_event_type, steps, conversation_id, frames, byteVars,
                    peer, cancelRequested, error_chunks, sync, vlm >>
    /\ held' = (Len(events') > Len(events))

\* chat_stream from its start to the first point where it waits: the call of
\* the collaborator (after the vision_analyzing event) or the upstream request.
VisionStart ==
    /\ pc = "vision"
    /\ IF ~UsesPreanalysis(preanalysis) /\ StrTruthy(image) /\ vision_ready
       THEN /\ events' = Append(events,
                   format_sse_event("vision_analyzing",
                       [message |-> "Analyzing your image...", agent_id |-> aid]))
            /\ pc' = "vision_call"
            /\ UNCHANGED << vision_context, vision_description,
                            vision_structured_data, vision_error, query >>
       ELSE FinishVision(FromPreanalysis(aid, preanalysis))
    /\ UNCHANGED << reqVars, visionCalls, ending, connOpened, connOpen, buffer,
                    current_event_type, steps, conversation_id, frames, byteVars,
                    peer, cancelRequested, error_chunks, sync, vlm >>
    /\ held' = (Len(events') > Len(events))

\* The collaborator call returns or raises; chat_stream goes on to phase 2.
VisionCall ==
    /\ pc = "vision_call"
    /\ ~held
    /\ visionCalls' = visionCalls + 1
    /\ \E outcome \in VisionOutcomes(aid) : FinishVision(AfterVisionCall(aid, outcome))
    /\ UNCHANGED << reqVars, ending, connOpened, connOpen, buffer, current_event_type,
                    steps, conversation_id, frames, byteVars,
                    peer, cancelRequested, error_chunks, sync, vlm >>
    /\ held' = (Len(events') > Len(events))

ChatLines ==
    { DataLine([Obj EXCEPT !.conversation_id = "c1"]),
      DataLine(ToolCall("t1", "search", "{q:tent}")),
      DataLine([Obj EXCEPT !.message_content = "Hello"]) }

RecvChatLine ==
    /\ AwaitingChunk
    /\ Len(frames) < MaxChatFrames
    /\ \E line \in ChatLines : Deliver(line)

InitChat ==
    /\ request \in Requests
    /\ vision_ready \in BOOLEAN
    /\ pc = "received"
    /\ ending = "none"
    /\ msg = "ABSENT"
    /\ uid = "ABSENT"
    /\ aid = "ABSENT"
    /\ image = "ABSENT"
    /\ preanalysis = NoAnalysis
    /\ vision_context = ""
    /\ vision_description = ""
    /\ vision_structured_data = NoAnalysis
    /\ vision_error = ""
    /\ visionCalls = 0
    /\ connOpened = 0
    /\ connOpen = FALSE
    /\ peer = NoPeer
    /\ cancelRequested = FALSE
    /\ error_chunks = << >>
    /\ held = FALSE
    /\ sync = NoSync
    /\ vlm = NoVlm
    /\ query = "ABSENT"
    /\ buffer = << >>
    /\ current_event_type = << >>
    /\ steps = << >>
    /\ conversation_id = ""
    /\ events = << >>
    /\ frames = << >>
    /\ upstream = << >>
    /\ pos = 0

NextChat ==
    \/ ChatEndpoint
    \/ VisionStart
    \/ VisionCall
    \/ Connect
    \/ RecvErrorChunk
    \/ ErrorBodyEnd
    \/ TransportFail
    \/ RecvChatLine
    \/ EndOfStream
    \/ Resume
    \/ Return

SpecChat == InitChat /\ [][NextChat]_vars

-----------------------------------------------------------------------------
(* Cancellation of the response generator *)

\* What cancellation raises inside the generator: asyncio.CancelledError at
\* an await (the collaborator call, the upstream request, the next chunk),
\* GeneratorExit at a yield when the generator is closed.
CancelSignals == {"CancelledError", "GeneratorExit"}

\* Mutant of IsException: CancelledError derives from Exception.
IsException_CancelledIncluded(exc) == exc # "GeneratorExit"

\* "except Exception" (chat.py 215, 443) matches exc: CancelledError and
\* GeneratorExit derive from BaseException only.
IsException(exc) == exc \notin {"CancelledError", "GeneratorExit"}

\* The client goes away while chat_stream is suspended. GeneratorExit is
\* thrown in at the yield where the consumer holds an event: chat_stream ends
\* at once, but its "async for" (chat.py 243-244) does not close
\* stream_agent_response, which stays suspended inside its "async with"
\* blocks, so the connection, if open, stays open. CancelledError is raised
\* at the await the task is in: the collaborator call (which has been made),
\* client.stream(...) (the request has been issued) or the next chunk; no
\* except clause matches it and the "async with" blocks (chat.py 281-283)
\* release the connection on its way out.
Cancel ==
    /\ ~cancelRequested
    /\ cancelRequested' = TRUE
    /\ \E exc \in CancelSignals :
         IF exc = "GeneratorExit"
         THEN /\ held
              /\ pc \in {"vision_call", "connect", "streaming", "finishing"}
              /\ pc' = "cancelled"
              /\ ending' = "cancelled"
              /\ UNCHANGED << visionVars, connOpened, connOpen, query, events >>
         ELSE /\ ~held
              /\ pc \in {"vision_call", "connect", "reading_error_body", "streaming"}
              /\ visionCalls' = IF pc = "vision_call" THEN visionCalls + 1 ELSE visionCalls
              /\ connOpened' = IF pc = "connect" THEN connOpened + 1 ELSE connOpened
              /\ IF ~IsException(exc)
                 THEN /\ pc' = "cancelled"
                      /\ ending' = "cancelled"
                      /\ connOpen' = FALSE
                      /\ UNCHANGED << vision_context, vision_description,
                                      vision_structured_data, vision_error, query,
                                      events >>
                 ELSE IF pc = "vision_call"
                 THEN /\ FinishVision(AfterVisionCall(aid, VisionRaise(exc, "")))
                      /\ UNCHANGED << ending, connOpen >>
                 ELSE /\ events' = Append(events, FailureEvent("exception"))
                      /\ pc' = "finishing"
                      /\ ending' = "raised"
                      /\ connOpen' = FALSE
                      /\ UNCHANGED << vision_context, vision_description,
                                      vision_structured_data, vision_error, query >>
    /\ UNCHANGED << reqVars, buffer, current_event_type, steps, conversation_id,
                    frames, byteVars, peer, error_chunks, sync, vlm >>
    /\ held' = (Len(events') > Len(events))

\* The abandoned stream_agent_response is closed by the event loop's
\* asynchronous-generator finalizer: GeneratorExit at its yield leaves the
\* "async with" blocks (chat.py 281-283), which release the connection.
Finalize ==
    /\ pc = "cancelled"
    /\ connOpen
    /\ connOpen' = FALSE
    /\ UNCHANGED << reqVars, visionVars, pc, ending, connOpened, query, buffer,
                    current_event_type, steps, conversation_id, events, frames,
                    byteVars, peer, cancelRequested, error_chunks, sync, vlm, held >>

NextCancel ==
    \/ ChatEndpoint
    \/ VisionStart
    \/ VisionCall
    \/ Connect
    \/ RecvErrorChunk
    \/ ErrorBodyEnd
    \/ TransportFail
    \/ RecvChatLine
    \/ EndOfStream
    \/ Cancel
    \/ Resume
    \/ Return
    \/ Finalize

\* The event loop runs the finalizer of a generator that was dropped.
SpecCancel == InitChat /\ [][NextCancel]_vars /\ WF_vars(Finalize)

-----------------------------------------------------------------------------
(* The chunk loop on bytes: chat.py 297-313 *)

\* Upstream bodies, as bytes.
\* data: {"text_chunk":"<U+00E9>"}\n\n  (U+00E9 is the two bytes 195 169)
BodyTextChunk ==
    << 100, 97, 116, 97, 58, 32, 123, 34, 116, 101, 120, 116, 95, 99, 104,
        117, 110, 107, 34, 58, 34, 195, 169, 34, 125, 10, 10 >>

\* event: msg\r\ndata: {"conversation_id":"c1"}\r\n\r\n
BodyConversation ==
    << 101, 118, 101, 110, 116, 58, 32, 109, 115, 103, 13, 10, 100, 97, 116,
        97, 58, 32, 123, 34, 99, 111, 110, 118, 101, 114, 115, 97, 116, 105,
        111, 110, 95, 105, 100, 34, 58, 34, 99, 49, 34, 125, 13, 10, 13, 10 >>

\* : ping\ndata: {"reasoning":"r1"}\ndata: {bad\n\ndata: []\n
BodySkipAndRaise ==
    << 58, 32, 112, 105, 110, 103, 10, 100, 97, 116, 97, 58, 32, 123, 34,
        114, 101, 97, 115, 111, 110, 105, 110, 103, 34, 58, 34, 114, 49, 34,
        125, 10, 100, 97, 116, 97, 58, 32, 123, 98, 97, 100, 10, 10, 100,
        97, 116, 97, 58, 32, 91, 93, 10 >>

\* data: {"tool_call_id":"t1","tool_id":"search"}\ndata: {"tool_call_id":"t1","results":["p1"]}\n
BodyToolCall ==
    << 100, 97, 116, 97, 58, 32, 123, 34, 116, 111, 111, 108, 95, 99, 97,
        108, 108, 95, 105, 100, 34, 58, 34, 116, 49, 34, 44, 34, 116, 111,
        111, 108, 95, 105, 100, 34, 58, 34, 115, 101, 97, 114, 99, 104, 34,
        125, 10, 100, 97, 116, 97, 58, 32, 123, 34, 116, 111, 111, 108, 95,
        99, 97, 108, 108, 95, 105, 100, 34, 58, 34, 116, 49, 34, 44, 34,
        114, 101, 115, 117, 108, 116, 115, 34, 58, 91, 34, 112, 49, 34, 93,
        125, 10 >>

\* data: {"text_chunk":"Hel"}\ndata: {"message_content":"Hello"}   (no final newline)
BodyUnterminated ==
    << 100, 97, 116, 97, 58, 32, 123, 34, 116, 101, 120, 116, 95, 99, 104,
        117, 110, 107, 34, 58, 34, 72, 101, 108, 34, 125, 10, 100, 97, 116,
        97, 58, 32, 123, 34, 109, 101, 115, 115, 97, 103, 101, 95, 99, 111,
        110, 116, 101, 110, 116, 34, 58, 34, 72, 101, 108, 108, 111, 34,
        125 >>

Bodies == {BodyTextChunk, BodyConversation, BodySkipAndRaise, BodyToolCall, BodyUnterminated}

\* JSON texts, as code points, and the values json.loads gives for them.
\* {"text_chunk":"<U+00E9>"}
JsonTextChunkAccent ==
    << 123, 34, 116, 101, 120, 116, 95, 99, 104, 117, 110, 107, 34, 58, 34,
        233, 34, 125 >>

\* {"text_chunk":"Hel"}
JsonTextChunk ==
    << 123, 34, 116, 101, 120, 116, 95, 99, 104, 117, 110, 107, 34, 58, 34,
        72, 101, 108, 34, 125 >>

\* {"conversation_id":"c1"}
JsonConversation ==
    << 123, 34, 99, 111, 110, 118, 101, 114, 115, 97, 116, 105, 111, 110,
        95, 105, 100, 34, 58, 34, 99, 49, 34, 125 >>

\* {"reasoning":"r1"}
JsonReasoning ==
    << 123, 34, 114, 101, 97, 115, 111, 110, 105, 110, 103, 34, 58, 34, 114,
        49, 34, 125 >>

\* []
JsonArray ==
    << 91, 93 >>

\* {"tool_call_id":"t1","tool_id":"search"}
JsonToolCall ==
    << 123, 34, 116, 111, 111, 108, 95, 99, 97, 108, 108, 95, 105, 100, 34,
        58, 34, 116, 49, 34, 44, 34, 116, 111, 111, 108, 95, 105, 100, 34,
        58, 34, 115, 101, 97, 114, 99, 104, 34, 125 >>

\* {"tool_call_id":"t1","results":["p1"]}
JsonToolResult ==
    << 123, 34, 116, 111, 111, 108, 95, 99, 97, 108, 108, 95, 105, 100, 34,
        58, 34, 116, 49, 34, 44, 34, 114, 101, 115, 117, 108, 116, 115, 34,
        58, 91, 34, 112, 49, 34, 93, 125 >>

\* {"message_content":"Hello"}
JsonMessage ==
    << 123, 34, 109, 101, 115, 115, 97, 103, 101, 95, 99, 111, 110, 116,
        101, 110, 116, 34, 58, 34, 72, 101, 108, 108, 111, 34, 125 >>

\* json.loads(data_str): the value, or ok = FALSE for JSONDecodeError.
JsonLoads(text) ==
    CASE text = JsonTextChunkAccent -> [ok |-> TRUE, value |-> [Obj EXCEPT !.text_chunk = "U+00E9"]]
      [] text = JsonTextChunk -> [ok |-> TRUE, value |-> [Obj EXCEPT !.text_chunk = "Hel"]]
      [] text = JsonConversation -> [ok |-> TRUE, value |-> [Obj EXCEPT !.conversation_id = "c1"]]
      [] text = JsonReasoning -> [ok |-> TRUE, value |-> Reasoning("r1", "ABSENT")]
      [] text = JsonArray -> [ok |-> TRUE, value |-> [Obj EXCEPT !.shape = "array"]]
      [] text = JsonToolCall -> [ok |-> TRUE, value |-> ToolCall("t1", "search", "ABSENT")]
      [] text = JsonToolResult -> [ok |-> TRUE, value |-> ToolResult("t1", "[p1]")]
      [] text = JsonMessage -> [ok |-> TRUE, value |-> [Obj EXCEPT !.message_content = "Hello"]]
      [] OTHER -> [ok |-> FALSE, value |-> Obj]

\* str.strip(): the code points Python counts as whitespace
Whitespace == {9, 10, 11, 12, 13, 28, 29, 30, 31, 32, 133, 160}

RECURSIVE LStrip(_)
LStrip(t) == IF t # << >> /\ Head(t) \in Whitespace THEN LStrip(Tail(t)) ELSE t

RECURSIVE RStrip(_)
RStrip(t) == IF t # << >> /\ t[Len(t)] \in Whitespace
             THEN RStrip(SubSeq(t, 1, Len(t) - 1)) ELSE t

Strip(t) == RStrip(LStrip(t))

StartsWith(t, prefix) == Len(t) >= Len(prefix) /\ SubSeq(t, 1, Len(prefix)) = prefix

EventMarker == << 101, 118, 101, 110, 116, 58, 32 >>     \* "event: "
DataMarker == << 100, 97, 116, 97, 58, 32 >>             \* "data: "

\* The line record of one raw line taken from the buffer (chat.py 303-315).
ParseLine(raw) ==
    LET line == Strip(raw)
    IN IF line = << >> THEN Line("blank", << >>, FALSE, Obj)
       ELSE IF StartsWith(line, EventMarker)
       THEN Line("event", Strip(SubSeq(line, 8, Len(line))), FALSE, Obj)
       ELSE IF StartsWith(line, DataMarker)
       THEN LET parsed == JsonLoads(SubSeq(line, 7, Len(line)))
            IN Line("data", << >>, parsed.ok, parsed.value)
       ELSE Line("other", << >>, FALSE, Obj)

\* Position of the first "\n" of the buffer, 0 when it holds none.
NewlineAt(t) ==
    LET at == {i \in 1..Len(t) : t[i] = 10}
    IN IF at = {} THEN 0 ELSE CHOOSE i \in at : \A j \in at : i <= j

\* Mutant of Drain: what follows the last newline of the buffer is handled
\* as a line too, so the buffer is always left empty.
RECURSIVE Drain_ParsesTail(_, _, _, _, _, _)
Drain_ParsesTail(buf, etype, ledger, conv, out, seen) ==
    LET n == IF NewlineAt(buf) = 0 THEN Len(buf) + 1 ELSE NewlineAt(buf)
    IN IF buf = << >>
       THEN [buffer |-> buf, current_event_type |-> etype, steps |-> ledger,
             conversation_id |-> conv, out |-> out, raised |-> "none", lines |-> seen]
       ELSE LET line == ParseLine(SubSeq(buf, 1, n - 1))
                rest == SubSeq(buf, n + 1, Len(buf))
                r == ProcessLine(line, etype, ledger, conv)
            IN IF r.raised # "none" \/ r.out # << >>
               THEN [buffer |-> rest, current_event_type |-> r.current_event_type,
                     steps |-> r.steps, conversation_id |-> r.conversation_id,
                     out |-> out \o r.out, raised |-> r.raised,
                     lines |-> Append(seen, line)]
               ELSE Drain_ParsesTail(rest, r.current_event_type, r.steps,
                                     r.conversation_id, out \o r.out,
                                     Append(seen, line))

\* while "\n" in buffer: line, buffer = buffer.split("\n", 1); ...
\* Runs from where the generator is resumed to where it is suspended next:
\* the yield of a line's event, a line that raises, or a buffer without a
\* complete line (the next chunk is awaited).
RECURSIVE Drain(_, _, _, _, _, _)
Drain(buf, etype, ledger, conv, out, seen) ==
    LET n == NewlineAt(buf)
    IN IF n = 0
       THEN [buffer |-> buf, current_event_type |-> etype, steps |-> ledger,
             conversation_id |-> conv, out |-> out, raised |-> "none", lines |-> seen]
       ELSE LET line == ParseLine(SubSeq(buf, 1, n - 1))
                rest == SubSeq(buf, n + 1, Len(buf))
                r == ProcessLine(line, etype, ledger, conv)
            IN IF r.raised # "none" \/ r.out # << >>
               THEN [buffer |-> rest, current_event_type |-> r.current_event_type,
                     steps |-> r.steps, conversation_id |-> r.conversation_id,
                     out |-> out \o r.out, raised |-> r.raised,
                     lines |-> Append(seen, line)]
               ELSE Drain(rest, r.current_event_type, r.steps, r.conversation_id,
                          out \o r.out, Append(seen, line))

\* The while loop run on the buffer buf up to the next suspension: the
\* locals it leaves and the event it yields; a line that raises leaves the
\* "async with" block and the except clause yields the error event.
RunLines(buf) ==
    LET r == Drain(buf, current_event_type, steps, conversation_id, << >>, << >>)
    IN /\ buffer' = r.buffer
       /\ current_event_type' = r.current_event_type
       /\ steps' = r.steps
       /\ conversation_id' = r.conversation_id
       /\ frames' = frames \o r.lines
       /\ IF r.raised = "none"
          THEN /\ events' = events \o r.out
               /\ UNCHANGED << pc, ending, connOpen >>
          ELSE /\ events' = (events \o r.out) \o << FailureEvent("exception") >>
               /\ pc' = "finishing"
               /\ ending' = "raised"
               /\ connOpen' = FALSE

\* One chunk of the upstream body, of any length, arrives while the
\* generator waits for it: it is decoded on its own, appended to the buffer,
\* and the while loop runs up to its first yield.
RecvChunk ==
    /\ AwaitingChunk
    /\ pos < Len(upstream)
    /\ \E n \in 1..(Len(upstream) - pos) :
         LET decoded == Utf8Decode(SubSeq(upstream, pos + 1, pos + n))
         IN /\ pos' = pos + n
            /\ IF ~decoded.ok
               THEN /\ events' = Append(events, FailureEvent("exception"))
                    /\ pc' = "finishing"
                    /\ ending' = "raised"
                    /\ connOpen' = FALSE
                    /\ UNCHANGED << buffer, current_event_type, steps,
                                    conversation_id, frames >>
               ELSE RunLines(buffer \o decoded.text)
    /\ UNCHANGED << reqVars, visionVars, connOpened, query, upstream,
                    peer, cancelRequested, error_chunks, sync, vlm >>
    /\ held' = (Len(events') > Len(events))

\* The consumer resumes the generator after an event while complete lines
\* are left in the buffer: the while loop goes on up to its next yield.
ResumeLines ==
    /\ pc = "streaming"
    /\ held
    /\ \E i \in 1..Len(buffer) : buffer[i] = 10
    /\ RunLines(buffer)
    /\ UNCHANGED << reqVars, visionVars, connOpened, query, byteVars, peer,
                    cancelRequested, error_chunks, sync, vlm >>
    /\ held' = (Len(events') > Len(events))

InitBytes ==
    /\ request = TextRequest
    /\ pc = "connect"
    /\ ending = "none"
    /\ msg = "find a tent"
    /\ uid = "user_new"
    /\ aid = "wayfinder-search-agent"
    /\ image = "ABSENT"
    /\ preanalysis = NoAnalysis
    /\ vision_ready = FALSE
    /\ vision_context = ""
    /\ vision_description = ""
    /\ vision_structured_data = NoAnalysis
    /\ vision_error = ""
    /\ visionCalls = 0
    /\ connOpened = 0
    /\ connOpen = FALSE
    /\ peer = NoPeer
    /\ cancelRequested = FALSE
    /\ error_chunks = << >>
    /\ held = FALSE
    /\ sync = NoSync
    /\ vlm = NoVlm
    /\ query = ContextualMessage("", "user_new", "find a tent")
    /\ buffer = << >>
    /\ current_event_type = << >>
    /\ steps = << >>
    /\ conversation_id = ""
    /\ events = << >>
    /\ frames = << >>
    /\ upstream \in Bodies
    /\ pos = 0

NextBytes ==
    \/ Connect
    \/ RecvErrorChunk
    \/ ErrorBodyEnd
    \/ TransportFail
    \/ RecvChunk
    \/ ResumeLines
    \/ EndOfStream
    \/ Resume
    \/ Return

SpecBytes == InitBytes /\ [][NextBytes]_vars

-----------------------------------------------------------------------------
(* stream_agent_response on frames whose tool_call_id is JSON null *)

MaxNullIdFrames == 3

\* {"tool_call_id": null, ...}: the key is present, its value is None.
NullIdPayloads ==
    { Reasoning("r1", "ABSENT"),
      ToolCall("NULL", "search", "{q:tent}"),
      ToolResult("NULL", "[p1]"),
      ToolCall("t1", "search", "{}"),
      ToolResult("t1", "[p2]") }

NullIdLines == {DataLine(p) : p \in NullIdPayloads}

RecvNullIdLine ==
    /\ AwaitingChunk
    /\ Len(frames) < MaxNullIdFrames
    /\ \E line \in NullIdLines : Deliver(line)

NextNullId ==
    \/ Connect
    \/ RecvErrorChunk
    \/ ErrorBodyEnd
    \/ TransportFail
    \/ RecvNullIdLine
    \/ EndOfStream
    \/ Resume
    \/ Return

SpecNullId == Init /\ [][NextNullId]_vars

-----------------------------------------------------------------------------
(* stream_agent_response on data lines whose JSON has an unexpected shape *)

MaxShapeFrames == 3

\* data: [] / 7 / "x" / null; {"data": null} / {"data": 7}; {"round": 7} /
\* {"round": null}; and three frames of the expected shape.
ShapePayloads ==
    { [Obj EXCEPT !.shape = "array"],
      [Obj EXCEPT !.shape = "number"],
      [Obj EXCEPT !.shape = "string"],
      [Obj EXCEPT !.shape = "null"],
      [Obj EXCEPT !.envelope = "null"],
      [Obj EXCEPT !.envelope = "number"],
      [Obj EXCEPT !.round = "7"],
      [Obj EXCEPT !.round = "NULL"],
      [Obj EXCEPT !.conversation_id = "c1"],
      Reasoning("r1", "ABSENT"),
      [Obj EXCEPT !.text_chunk = "Hel"] }

ShapeLines == {DataLine(p) : p \in ShapePayloads}

RecvShapeLine ==
    /\ AwaitingChunk
    /\ Len(frames) < MaxShapeFrames
    /\ \E line \in ShapeLines : Deliver(line)

NextShapes ==
    \/ Connect
    \/ RecvErrorChunk
    \/ ErrorBodyEnd
    \/ TransportFail
    \/ RecvShapeLine
    \/ EndOfStream
    \/ Resume
    \/ Return

SpecShapes == Init /\ [][NextShapes]_vars

-----------------------------------------------------------------------------
(* The synchronous extraction endpoints: parse-trip-context, extract-itinerary *)

MaxSyncLines == 3

SyncEndpoints == {"parse-trip-context", "extract-itinerary"}

\* Texts the agent answers with.
ChunkOpen == "{\"days\": "
ChunkClose == "[\"d1\"]}"
TripJson == "{\"destination\": \"Moab\", \"dates\": null, \"activity\": \"hiking\"}"
\* FENCE stands for the Markdown code fence, three U+0060 characters.
FencedDays == "FENCE json\n{\"days\": [\"d1\"]}\nFENCE"

TripDict == [NoResult EXCEPT !.destination = "Moab", !.dates = "NULL",
                             !.activity = "hiking"]
DaysDict == [NoResult EXCEPT !.days = "[d1]"]

\* required_fields and fallback of the two calls of extract_json_from_response
RequiredFields(endpoint) ==
    IF endpoint = "parse-trip-context"
    THEN {"destination", "dates", "activity"} ELSE {"days"}
Fallback(endpoint) ==
    IF endpoint = "parse-trip-context"
    THEN [NoResult EXCEPT !.destination = "NULL", !.dates = "NULL", !.activity = "NULL"]
    ELSE [NoResult EXCEPT !.days = "[]"]

\* strip_markdown_code_blocks on the concatenation of the texts: the lines
\* between the first two fence lines, or the stripped text without fences.
StripMarkdownCodeBlocks(texts) ==
    IF texts # << >> /\ Head(texts) = FencedDays
    THEN << ChunkOpen, ChunkClose >>
    ELSE texts

\* extract_json_from_response: json.loads of the cleaned text when it is one
\* JSON object; else the first brace-free {...} that names a required
\* field, when it parses; else the fallback.
ExtractJsonFromResponse(texts, required_fields, fallback) ==
    LET cleaned == StripMarkdownCodeBlocks(texts)
        flatDays == \E i \in 1..(Len(cleaned) - 1) :
                        cleaned[i] = ChunkOpen /\ cleaned[i + 1] = ChunkClose
        flatTrip == \E i \in 1..Len(cleaned) : cleaned[i] = TripJson
    IN IF texts = << >> THEN fallback
       ELSE IF cleaned = << TripJson >> THEN TripDict
       ELSE IF cleaned = << ChunkOpen, ChunkClose >> THEN DaysDict
       ELSE IF flatTrip /\ required_fields \cap {"destination", "dates", "activity"} # {}
            THEN TripDict
       ELSE IF flatDays /\ "days" \in required_fields THEN DaysDict
       ELSE fallback

\* The value returned to the client: parsed.get(...) of the endpoint's keys.
SyncResult(endpoint, parsed) ==
    IF endpoint = "parse-trip-context"
    THEN [NoResult EXCEPT !.destination = Get(parsed.destination),
                          !.dates = Get(parsed.dates),
                          !.activity = Get(parsed.activity)]
    ELSE [NoResult EXCEPT !.days = GetOr(parsed.days, "[]")]

\* Exceptions raised inside the try block.
HttpException(status_code) == [type |-> "HTTPException", status_code |-> status_code]
Raised(type) == [type |-> type, status_code |-> 0]
TimeoutExceptions == {"ReadTimeout", "ConnectTimeout"}
RequestErrors == TimeoutExceptions \cup {"ConnectError", "ReadError"}

\* The except clauses of the endpoint, in order (chat.py 118-123, 521-526):
\* the status and detail of the HTTPException the client receives.
SyncExcept(e) ==
    IF e.type \in TimeoutExceptions
    THEN [status |-> 504, detail |-> "Request timeout"]
    ELSE IF e.type \in RequestErrors
    THEN [status |-> 503, detail |-> "Connection error"]
    ELSE [status |-> 500, detail |-> "Unexpected error"]

SyncFail(e) ==
    sync' = [sync EXCEPT !.pc = "done", !.status = SyncExcept(e).status,
                         !.detail = SyncExcept(e).detail]

UpstreamStatuses == {200, 401, 429, 503}

\* client.stream(...) answers: 200 opens the line loop; with any other
\* status the endpoint waits for the body (await response.aread()).
SyncConnect ==
    /\ sync.pc = "connect"
    /\ \E status \in UpstreamStatuses :
         sync' = [sync EXCEPT !.pc = IF status = 200 THEN "reading"
                                     ELSE "reading_error_body",
                              !.upstream_status = status]
    /\ UNCHANGED << reqVars, visionVars, pc, ending, connOpened, connOpen, query,
                    buffer, current_event_type, steps, conversation_id, events,
                    frames, byteVars, peer, cancelRequested, error_chunks, vlm, held >>

\* The body of the non-200 answer has been read: it is decoded for the
\* detail and HTTPException(status_code=response.status_code) is raised
\* inside the try block (chat.py 75-80, 505-510).
SyncReadErrorBody ==
    /\ sync.pc = "reading_error_body"
    /\ \E body \in ErrorBodies \cup {<< >>} :
         SyncFail(IF body = << >> \/ Utf8Decode(body).ok
                  THEN HttpException(sync.upstream_status)
                  ELSE Raised("UnicodeDecodeError"))
    /\ UNCHANGED << reqVars, visionVars, pc, ending, connOpened, connOpen, query,
                    buffer, current_event_type, steps, conversation_id, events,
                    frames, byteVars, peer, cancelRequested, error_chunks, vlm, held >>

\* A transport-level or other exception while connecting or reading, the
\* body of a non-200 answer included.
SyncTransportFail ==
    /\ sync.pc \in {"connect", "reading", "reading_error_body"}
    /\ \E type \in {"ReadTimeout", "ConnectError", "RuntimeError"} :
         SyncFail(Raised(type))
    /\ UNCHANGED << reqVars, visionVars, pc, ending, connOpened, connOpen, query,
                    buffer, current_event_type, steps, conversation_id, events,
                    frames, byteVars, peer, cancelRequested, error_chunks, vlm, held >>

\* The body of the line loop for one parsed data line: the new
\* full_response, or the exception raised.
SyncHandleData(p, full_response) ==
    IF p.shape # "object"
    THEN [full_response |-> full_response, raised |-> "AttributeError"]
    ELSE IF p.envelope \notin {"ABSENT", "object"}
    THEN [full_response |-> full_response, raised |-> "TypeError"]
    ELSE IF p.text_chunk # "ABSENT"
    THEN IF p.text_chunk = "NULL"
         THEN [full_response |-> full_response, raised |-> "TypeError"]
         ELSE [full_response |-> Append(full_response, p.text_chunk), raised |-> "none"]
    ELSE IF p.message_content # "ABSENT"
    THEN [full_response |-> << p.message_content >>, raised |-> "none"]
    ELSE IF p.round # "ABSENT"
    THEN IF ~RoundIsContainer(p.round)
         THEN [full_response |-> full_response, raised |-> "TypeError"]
         ELSE IF RoundHasMessage(p.round)
         THEN [full_response |-> << RoundMessage(p.round) >>, raised |-> "none"]
         ELSE [full_response |-> full_response, raised |-> "none"]
    ELSE [full_response |-> full_response, raised |-> "none"]

SyncPayloads ==
    { [Obj EXCEPT !.text_chunk = ChunkOpen],
      [Obj EXCEPT !.text_chunk = ChunkClose],
      Wrapped([Obj EXCEPT !.text_chunk = ChunkClose]),
      [Obj EXCEPT !.message_content = TripJson],
      [Obj EXCEPT !.message_content = FencedDays],
      [Obj EXCEPT !.round = "{response:{message:Hello}}"],
      [Obj EXCEPT !.round = "7"],
      [Obj EXCEPT !.shape = "array"] }

SyncLines == {Line("blank", << >>, FALSE, Obj), EventLine, BadJsonLine}
                \cup {DataLine(p) : p \in SyncPayloads}

\* One line from response.aiter_lines().
SyncRecvLine ==
    /\ sync.pc = "reading"
    /\ sync.nlines < MaxSyncLines
    /\ \E line \in SyncLines :
         IF line.kind = "data" /\ JsonParses(line)
         THEN LET r == SyncHandleData(line.payload, sync.full_response)
              IN IF r.raised = "none"
                 THEN sync' = [sync EXCEPT !.full_response = r.full_response,
                                           !.nlines = @ + 1]
                 ELSE sync' = [sync EXCEPT !.nlines = @ + 1, !.pc = "done",
                                   !.status = SyncExcept(Raised(r.raised)).status,
                                   !.detail = SyncExcept(Raised(r.raised)).detail]
         ELSE sync' = [sync EXCEPT !.nlines = @ + 1]
    /\ UNCHANGED << reqVars, visionVars, pc, ending, connOpened, connOpen, query,
                    buffer, current_event_type, steps, conversation_id, events,
                    frames, byteVars, peer, cancelRequested, error_chunks, vlm, held >>

\* The upstream body ends: the JSON is extracted and returned (status 200).
SyncEndOfStream ==
    /\ sync.pc = "reading"
    /\ sync' = [sync EXCEPT !.pc = "done", !.status = 200,
                            !.result = SyncResult(sync.endpoint,
                                ExtractJsonFromResponse(sync.full_response,
                                    RequiredFields(sync.endpoint),
                                    Fallback(sync.endpoint)))]
    /\ UNCHANGED << reqVars, visionVars, pc, ending, connOpened, connOpen, query,
                    buffer, current_event_type, steps, conversation_id, events,
                    frames, byteVars, peer, cancelRequested, error_chunks, vlm, held >>

InitSync ==
    /\ request = TextRequest
    /\ pc = "done"
    /\ ending = "none"
    /\ msg = "find a tent"
    /\ uid = "user_new"
    /\ aid = "wayfinder-search-agent"
    /\ image = "ABSENT"
    /\ preanalysis = NoAnalysis
    /\ vision_ready = FALSE
    /\ vision_context = ""
    /\ vision_description = ""
    /\ vision_structured_data = NoAnalysis
    /\ vision_error = ""
    /\ visionCalls = 0
    /\ connOpened = 0
    /\ connOpen = FALSE
    /\ peer = NoPeer
    /\ cancelRequested = FALSE
    /\ error_chunks = << >>
    /\ held = FALSE
    /\ sync \in {SyncState(e, "connect", << >>, 0, 0, 0, "", NoResult) :
                    e \in SyncEndpoints}
    /\ vlm = NoVlm
    /\ query = "ABSENT"
    /\ buffer = << >>
    /\ current_event_type = << >>
    /\ steps = << >>
    /\ conversation_id = ""
    /\ events = << >>
    /\ frames = << >>
    /\ upstream = << >>
    /\ pos = 0

NextSync ==
    \/ SyncConnect
    \/ SyncReadErrorBody
    \/ SyncTransportFail
    \/ SyncRecvLine
    \/ SyncEndOfStream

SpecSync == InitSync /\ [][NextSync]_vars

-----------------------------------------------------------------------------
(* vision_service.analyze_image: the retry loop *)

MaxVlmCalls == 3

\* vision_service.py 91
max_attempts == 2

\* What one HTTP attempt can meet: an answer of the vision API, or an
\* exception of client.post. content "ABSENT": a 200 body without choices.
VlmResponse(status, content) ==
    [kind |-> "response", status |-> status, content |-> content, exc_type |-> ""]
VlmException(type) ==
    [kind |-> "exception", status |-> 0, content |-> "ABSENT", exc_type |-> type]

AttemptResults ==
    { VlmResponse(200, "a red dome tent"), VlmResponse(200, ""),
      VlmResponse(200, "ABSENT"), VlmResponse(500, "ABSENT"),
      VlmResponse(503, "ABSENT"),
      VlmException("ReadTimeout"), VlmException("ConnectTimeout"),
      VlmException("ConnectError"), VlmException("ReadError"),
      VlmException("RuntimeError") }

\* except (httpx.TimeoutException, httpx.ConnectError)
IsTransientError(type) == type \in {"ReadTimeout", "ConnectTimeout", "ConnectError"}

\* f"Jina VLM API error: {response.status_code}"
JinaErrorText(status) ==
    IF status = 503 THEN "Jina VLM API error: 503" ELSE "Jina VLM API error: 500"

\* Mutant of AfterAttempt: every exception of an attempt is retried, a
\* non-200 answer included.
AfterAttempt_RetriesAll(attempt, last_error, r) ==
    IF r.kind = "response" /\ r.status = 200 /\ r.content # "ABSENT"
    THEN [pc |-> "returned", attempt |-> attempt, last_error |-> last_error,
          outcome |-> VlmOutcome("returned", "", r.content)]
    ELSE LET type == IF r.kind = "exception" THEN r.exc_type
                     ELSE IF r.status # 200 THEN "ValueError" ELSE "KeyError"
             text == IF r.kind = "response" /\ r.status # 200
                     THEN JinaErrorText(r.status) ELSE ""
         IN IF attempt < max_attempts
            THEN [pc |-> "attempt", attempt |-> attempt + 1, last_error |-> type,
                  outcome |-> VlmOutcome("none", "", "")]
            ELSE [pc |-> "raised", attempt |-> attempt, last_error |-> type,
                  outcome |-> VlmOutcome("raised", type, text)]

\* One pass of the loop body (vision_service.py 94-122) and, after the last
\* pass, line 124: the locals and how the call goes on.
AfterAttempt(attempt, last_error, r) ==
    IF r.kind = "response" /\ r.status # 200
    THEN [pc |-> "raised", attempt |-> attempt, last_error |-> last_error,
          outcome |-> VlmOutcome("raised", "ValueError", JinaErrorText(r.status))]
    ELSE IF r.kind = "response" /\ r.content = "ABSENT"
    THEN [pc |-> "raised", attempt |-> attempt, last_error |-> last_error,
          outcome |-> VlmOutcome("raised", "KeyError", "")]
    ELSE IF r.kind = "response"
    THEN [pc |-> "returned", attempt |-> attempt, last_error |-> last_error,
          outcome |-> VlmOutcome("returned", "", r.content)]
    ELSE IF IsTransientError(r.exc_type)
    THEN IF attempt < max_attempts
         THEN [pc |-> "attempt", attempt |-> attempt + 1, last_error |-> r.exc_type,
               outcome |-> VlmOutcome("none", "", "")]
         ELSE [pc |-> "raised", attempt |-> attempt, last_error |-> r.exc_type,
               outcome |-> VlmOutcome("raised", r.exc_type, "")]
    ELSE [pc |-> "raised", attempt |-> attempt, last_error |-> last_error,
          outcome |-> VlmOutcome("raised", r.exc_type, "")]

\* analyze_image is called (vision_service.py 63-92): without an API key or
\* with an image above the size limit it raises ValueError before any HTTP
\* attempt; else the loop is entered with attempt 1.
VlmCall ==
    /\ vlm.pc \in {"idle", "returned", "raised"}
    /\ vlm.calls < MaxVlmCalls
    /\ \E has_key \in BOOLEAN, too_large \in BOOLEAN :
         IF ~has_key
         THEN vlm' = VlmState("raised", 0, "None", << >>, vlm.calls + 1,
                        VlmOutcome("raised", "ValueError", "Jina API key not configured"))
         ELSE IF too_large
         THEN vlm' = VlmState("raised", 0, "None", << >>, vlm.calls + 1,
                        VlmOutcome("raised", "ValueError", "Image too large"))
         ELSE vlm' = VlmState("attempt", 1, "None", << >>, vlm.calls + 1,
                        VlmOutcome("none", "", ""))
    /\ UNCHANGED << reqVars, visionVars, pc, ending, connOpened, connOpen, query,
                    buffer, current_event_type, steps, conversation_id, events,
                    frames, byteVars, peer, cancelRequested, error_chunks, sync, held >>

\* One HTTP attempt ends, with an answer or an exception.
VlmAttempt ==
    /\ vlm.pc = "attempt"
    /\ \E r \in AttemptResults :
         LET a == AfterAttempt(vlm.attempt, vlm.last_error, r)
         IN vlm' = [vlm EXCEPT !.pc = a.pc, !.attempt = a.attempt,
                               !.last_error = a.last_error,
                               !.made = Append(@, r), !.outcome = a.outcome]
    /\ UNCHANGED << reqVars, visionVars, pc, ending, connOpened, connOpen, query,
                    buffer, current_event_type, steps, conversation_id, events,
                    frames, byteVars, peer, cancelRequested, error_chunks, sync, held >>

InitVlm ==
    /\ request = TextRequest
    /\ pc = "done"
    /\ ending = "none"
    /\ msg = "find a tent"
    /\ uid = "user_new"
    /\ aid = "wayfinder-search-agent"
    /\ image = "ABSENT"
    /\ preanalysis = NoAnalysis
    /\ vision_ready = TRUE
    /\ vision_context = ""
    /\ vision_description = ""
    /\ vision_structured_data = NoAnalysis
    /\ vision_error = ""
    /\ visionCalls = 0
    /\ connOpened = 0
    /\ connOpen = FALSE
    /\ peer = NoPeer
    /\ cancelRequested = FALSE
    /\ error_chunks = << >>
    /\ held = FALSE
    /\ sync = NoSync
    /\ vlm = VlmState("idle", 0, "None", << >>, 0, VlmOutcome("none", "", ""))
    /\ query = "ABSENT"
    /\ buffer = << >>
    /\ current_event_type = << >>
    /\ steps = << >>
    /\ conversation_id = ""
    /\ events = << >>
    /\ frames = << >>
    /\ upstream = << >>
    /\ pos = 0

NextVlm ==
    \/ VlmCall
    \/ VlmAttempt

\* Every HTTP attempt ends: client.post has a timeout of 120 seconds.
SpecVlm == InitVlm /\ [][NextVlm]_vars /\ WF_vars(VlmAttempt)

-----------------------------------------------------------------------------
(* Two calls of stream_agent_response served at the same time *)

MaxPairFrames == 2

PairLines ==
    { EventLine,
      DataLine([Obj EXCEPT !.conversation_id = "c1"]),
      DataLine(Wrapped([Obj EXCEPT !.conversation_id = "c2"])),
      DataLine(Reasoning("r1", "ABSENT")),
      DataLine(ToolCall("t1", "search", "{q:tent}")),
      DataLine(ToolResult("t1", "[p1]")) }

\* Mutant of PeerLedger: steps is one list shared by all calls.
PeerLedger_Shared == steps

\* steps = [] (chat.py 294) is a local of the call: the second call reads and
\* writes its own list.
PeerLedger == peer.steps

RecvPairLine ==
    /\ AwaitingChunk
    /\ Len(frames) < MaxPairFrames
    /\ \E line \in PairLines : Deliver(line)

\* The second call's request is answered with 200 (chat.py 281-295).
PeerConnect ==
    /\ peer.pc = "connect"
    /\ peer' = PeerState("streaming", << >>, << >>, "", << >>, << >>, "none")
    /\ UNCHANGED << reqVars, visionVars, pc, ending, connOpened, connOpen, query,
                    buffer, current_event_type, steps, conversation_id, events,
                    frames, byteVars, cancelRequested, error_chunks, sync, vlm, held >>

\* The second call handles one line of its own upstream stream.
PeerRecvLine ==
    /\ peer.pc = "streaming"
    /\ Len(peer.frames) < MaxPairFrames
    /\ \E line \in PairLines :
         LET r == ProcessLine(line, peer.current_event_type, PeerLedger,
                              peer.conversation_id)
         IN peer' = IF r.raised = "none"
                    THEN PeerState("streaming", r.current_event_type, r.steps,
                                   r.conversation_id, peer.events \o r.out,
                                   Append(peer.frames, line), "none")
                    ELSE PeerState("done", r.current_event_type, r.steps,
                                   r.conversation_id,
                                   (peer.events \o r.out) \o << FailureEvent("exception") >>,
                                   Append(peer.frames, line), "raised")
    /\ UNCHANGED << reqVars, visionVars, pc, ending, connOpened, connOpen, query,
                    buffer, current_event_type, steps, conversation_id, events,
                    frames, byteVars, cancelRequested, error_chunks, sync, vlm, held >>

\* The second call's upstream stream ends: its completion event.
PeerEndOfStream ==
    /\ peer.pc = "streaming"
    /\ peer' = [peer EXCEPT !.pc = "done", !.ending = "completion",
                            !.events = Append(@, CompletionEvent(peer.conversation_id,
                                                                 PeerLedger))]
    /\ UNCHANGED << reqVars, visionVars, pc, ending, connOpened, connOpen, query,
                    buffer, current_event_type, steps, conversation_id, events,
                    frames, byteVars, cancelRequested, error_chunks, sync, vlm, held >>

InitPair ==
    /\ request = TextRequest
    /\ pc = "connect"
    /\ ending = "none"
    /\ msg = "find a tent"
    /\ uid = "user_new"
    /\ aid = "wayfinder-search-agent"
    /\ image = "ABSENT"
    /\ preanalysis = NoAnalysis
    /\ vision_ready = FALSE
    /\ vision_context = ""
    /\ vision_description = ""
    /\ vision_structured_data = NoAnalysis
    /\ vision_error = ""
    /\ visionCalls = 0
    /\ connOpened = 0
    /\ connOpen = FALSE
    /\ peer = PeerState("connect", << >>, << >>, "", << >>, << >>, "none")
    /\ cancelRequested = FALSE
    /\ error_chunks = << >>
    /\ held = FALSE
    /\ sync = NoSync
    /\ vlm = NoVlm
    /\ query = ContextualMessage("", "user_new", "find a tent")
    /\ buffer = << >>
    /\ current_event_type = << >>
    /\ steps = << >>
    /\ conversation_id = ""
    /\ events = << >>
    /\ frames = << >>
    /\ upstream = << >>
    /\ pos = 0

NextPair ==
    \/ Connect
    \/ RecvErrorChunk
    \/ ErrorBodyEnd
    \/ RecvPairLine
    \/ EndOfStream
    \/ PeerConnect
    \/ PeerRecvLine
    \/ PeerEndOfStream
    \/ Resume
    \/ Return

SpecPair == InitPair /\ [][NextPair]_vars

-----------------------------------------------------------------------------
(* Vocabulary of the properties: frames as the specification classifies them *)

\* The rules of the classification table that the keys of payload p match.
MatchingRules(p) ==
    {k \in 1..8 :
        \/ k = 1 /\ p.error.present
        \/ k = 2 /\ p.conversation_id # "ABSENT"
        \/ k = 3 /\ p.reasoning # "ABSENT"
        \/ k = 4 /\ p.results # "ABSENT" /\ p.tool_call_id # "ABSENT"
        \/ k = 5 /\ p.tool_call_id # "ABSENT"
        \/ k = 6 /\ p.text_chunk # "ABSENT"
        \/ k = 7 /\ p.message_content # "ABSENT"
        \/ k = 8 /\ p.round # "ABSENT"}

\* The first matching rule, 0 when no rule matches.
FirstRule(p) ==
    IF MatchingRules(p) = {} THEN 0
    ELSE CHOOSE k \in MatchingRules(p) : \A j \in MatchingRules(p) : k <= j

\* The client event type each rule forwards to.
RuleEventType(k) ==
    CASE k = 1 -> "error"
      [] k = 2 -> "conversation_started"
      [] k = 3 -> "reasoning"
      [] k = 4 -> "tool_result"
      [] k = 5 -> "tool_call"
      [] k = 6 -> "message_chunk"
      [] OTHER -> "message_complete"

\* A data line whose JSON parsed to a JSON object.
IsFrame(line) == line.kind = "data" /\ JsonParses(line) /\ line.payload.shape = "object"

FrameRule(line) == IF IsFrame(line) THEN FirstRule(line.payload) ELSE 0

\* The events the last delivered line added to the response.
NewEvents == SubSeq(events', Len(events) + 1, Len(events'))

\* Positions of the lines that are tool_call frames for call id c ...
ToolCallFrames(c) ==
    {i \in 1..Len(frames) : FrameRule(frames[i]) = 5 /\ frames[i].payload.tool_call_id = c}
\* ... and of those among them that carry a tool_id
ToolCallFramesWithTool(c) ==
    {i \in ToolCallFrames(c) : Truthy(frames[i].payload.tool_id)}
ToolResultFrames(c) ==
    {i \in 1..Len(frames) : FrameRule(frames[i]) = 4 /\ frames[i].payload.tool_call_id = c}

Last(S) == CHOOSE i \in S : \A j \in S : j <= i
First(S) == CHOOSE i \in S : \A j \in S : i <= j

ParamsOf(line) == GetOr(line.payload.params, "{}")

StepsFor(ledger, c) == {k \in 1..Len(ledger) : ledger[k].tool_call_id = c}

CompletionEvents == {i \in 1..Len(events) : events[i].type = "completion"}

\* The request reached chat_stream and its query has been composed.
QueryBuilt ==
    \/ pc = "connect" /\ ~held
    \/ pc \in {"reading_error_body", "streaming", "finishing", "done"}

\* The upstream answered 200: the request did not end on a non-200 answer
\* (a non-200 answer whose body is not UTF-8 ends as "raised", with no line
\* read).
AnsweredOk ==
    /\ connOpened = 1
    /\ ending # "non200"
    /\ ~(ending = "raised" /\ frames = << >>)

-----------------------------------------------------------------------------
(* Properties *)

\* C1 (Scenario B): when the 200 stream is the single frame
\* {"error": {"message": "rate limited", "code": 429}} and then ends, the
\* client receives exactly one error event with error "rate limited" and
\* code 429, and no completion event.
C1_ScenarioB ==
    (pc = "done" /\ ending = "completion"
        /\ frames = << DataLine([Obj EXCEPT !.error = ErrRateLimited]) >>)
    => events = << format_sse_event("error",
                      [error |-> "rate limited", code |-> "429"]) >>

\* C3: a frame matching two or more rules is handled by the first matching
\* rule only: the only event it yields is that rule's event, with that rule's
\* content; the conversation id changes only under rule 2 and the ledger only
\* under rules 3, 4 and 5; a frame with results and tool_call_id is forwarded
\* as tool_result and never appends a tool_call step.
C3_Precedence ==
    [][\A line \in Lines :
          (pc = "streaming" /\ frames' = Append(frames, line) /\ IsFrame(line)
              /\ Cardinality(MatchingRules(line.payload)) >= 2)
          => LET p == line.payload
                 k == FirstRule(p)
             IN /\ Len(NewEvents) <= 1
                /\ \A i \in 1..Len(NewEvents) : NewEvents[i].type = RuleEventType(k)
                /\ k \in {1, 2, 4, 6, 7} => Len(NewEvents) = 1
                /\ k = 6 => NewEvents[1].data = [text_chunk |-> p.text_chunk]
                /\ k = 7 => NewEvents[1].data = [message_content |-> p.message_content]
                /\ k = 4 => /\ NewEvents[1].data = [tool_call_id |-> p.tool_call_id,
                                                    results |-> p.results]
                            /\ Len(steps') = Len(steps)
                /\ k # 2 => conversation_id' = conversation_id
                /\ k \notin {3, 4, 5} => steps' = steps
                /\ pc' = "streaming"
      ]_vars

\* C3 witness: a frame carrying results, tool_call_id and tool_id was handled
\* as a tool result of the step recorded before it.
C3_Witness ==
    /\ Len(frames) = 2 /\ Len(steps) = 1 /\ Len(events) = 2
    /\ MatchingRules(frames[2].payload) = {4, 5}
    /\ frames[2].payload.tool_id = "search"
    /\ events[2].type = "tool_result"
    /\ steps[1].results = "[p3]"

\* C4: the ledger never holds two tool_call steps with the same tool_call_id.
C4_LedgerUnique ==
    \A i, j \in 1..Len(steps) :
        (steps[i].type = "tool_call" /\ steps[j].type = "tool_call"
            /\ steps[i].tool_call_id = steps[j].tool_call_id)
        => i = j

\* C4 witness: three tool_call frames, two of them for t1, left two steps.
C4_Witness ==
    /\ Len(frames) = 3
    /\ Cardinality(ToolCallFramesWithTool("t1")) = 2
    /\ Cardinality(ToolCallFramesWithTool("t2")) = 1
    /\ Len(steps) = 2

\* C5: when a tool_call frame for c carrying a tool_id is followed by a
\* tool_result frame for c, the steps of the completion event hold exactly one
\* step for c and its results are those of the latest tool_result frame for c.
C5_NoDuplication ==
    \A c \in CallIds :
        (ending = "completion"
            /\ \E i \in ToolCallFramesWithTool(c) : \E j \in ToolResultFrames(c) : i < j)
        => LET final == events[Len(events)].data.steps
           IN /\ events[Len(events)].type = "completion"
              /\ Cardinality(StepsFor(final, c)) = 1
              /\ \A k \in StepsFor(final, c) :
                    final[k].results = frames[Last(ToolResultFrames(c))].payload.results

\* C5 witness: call, result [p1], result [p2], completion carrying [p2].
C5_Witness ==
    /\ ending = "completion" /\ Len(frames) = 3
    /\ ToolCallFramesWithTool("t1") = {1}
    /\ ToolResultFrames("t1") = {2, 3}
    /\ frames[2].payload.results = "[p1]"
    /\ events[Len(events)].data.steps[1].results = "[p2]"

\* C6: when the upstream answered 200 and its body ended without a transport
\* exception, exactly one completion event is emitted, it is the last event,
\* and it carries the conversation id and the final ledger.
C6_GracefulEnd ==
    (pc = "done" /\ AnsweredOk /\ ending \notin FailureKinds)
    => /\ Cardinality(CompletionEvents) = 1
       /\ events[Len(events)] = CompletionEvent(conversation_id, steps)

\* C7: a transport failure yields exactly one error event for it, which is
\* the last event; no completion event is emitted and at most one upstream
\* connection was opened.
C7_TransportFailure ==
    (ending \in FailureKinds)
    => /\ pc \in {"finishing", "done"}
       /\ Len(events) >= 1
       /\ events[Len(events)] = FailureEvent(ending)
       /\ Cardinality({i \in 1..Len(events) : events[i] = FailureEvent(ending)}) = 1
       /\ CompletionEvents = {}
       /\ connOpened <= 1

\* C7 witness: the read timed out after a tool call had been forwarded.
C7_Witness ==
    /\ ending = "timeout" /\ connOpened = 1
    /\ Len(steps) = 1 /\ Len(events) = 2
    /\ events[1].type = "tool_call"

\* Payloads with a reasoning key and a truthy transient flag
IsTransient(p) == p.reasoning # "ABSENT" /\ Truthy(GetOr(p.transient, "false"))

\* C8: a frame with reasoning and a truthy transient flag never changes the
\* ledger and never yields a reasoning event, and when it is a reasoning frame
\* (no higher rule matches) it yields no event at all; so no step and no
\* reasoning event ever carries the text of a transient frame.
C8_TransientSuppressed ==
    /\ [](/\ \A i \in 1..Len(steps) : steps[i].reasoning # "filler"
          /\ \A i \in 1..Len(events) :
                /\ events[i].type = "reasoning" => events[i].data.reasoning # "filler"
                /\ events[i].type = "completion" =>
                      \A k \in 1..Len(events[i].data.steps) :
                          events[i].data.steps[k].reasoning # "filler")
    /\ [][\A line \in Lines :
            (pc = "streaming" /\ frames' = Append(frames, line) /\ IsFrame(line)
                /\ IsTransient(line.payload))
            => /\ steps' = steps
               /\ \A i \in 1..Len(NewEvents) : NewEvents[i].type # "reasoning"
               /\ FirstRule(line.payload) = 3 => events' = events
         ]_vars

\* C8 witness: a transient reasoning frame between two recorded frames, and
\* the completion event without it.
C8_Witness ==
    /\ ending = "completion" /\ Len(frames) = 3
    /\ FrameRule(frames[2]) = 3 /\ IsTransient(frames[2].payload)
    /\ FrameRule(frames[1]) = 3 /\ FrameRule(frames[3]) = 5
    /\ Len(steps) = 2 /\ Len(events) = 3

\* The params the claim expects for c, counting the frames at positions S.
ExpectedParams(S) ==
    LET nonEmpty == {i \in S : Truthy(ParamsOf(frames[i]))}
    IN IF nonEmpty # {} THEN ParamsOf(frames[Last(nonEmpty)])
       ELSE ParamsOf(frames[First(S)])

\* C9 as stated: the recorded params of c are those of the most recent
\* tool_call frame for c with non-empty params, or of the first tool_call
\* frame for c when none had any.
C9_LastNonEmptyWins_AsStated ==
    \A c \in CallIds : \A k \in StepsFor(steps, c) :
        steps[k].params = ExpectedParams(ToolCallFrames(c))

\* C9 as amended: the same, counting only the tool_call frames for c that
\* carry a tool_id (frames without one are discarded with their params).
C9_LastNonEmptyWins ==
    \A c \in CallIds : \A k \in StepsFor(steps, c) :
        steps[k].params = ExpectedParams(ToolCallFramesWithTool(c))

\* C9 witness: non-empty params survived a later frame with empty params.
C9_Witness ==
    /\ Len(frames) = 3 /\ Len(steps) = 1
    /\ ToolCallFramesWithTool("t1") = {1, 2, 3}
    /\ ParamsOf(frames[1]) = "{}"
    /\ ParamsOf(frames[2]) = "{q:stove}"
    /\ ParamsOf(frames[3]) = "{}"
    /\ steps[1].params = "{q:stove}"

\* The text the request contributes to the query: the client's text, or the
\* default text when the client's text is blank and an image came with it.
EffectiveMessage ==
    LET fromBody == request.has_body
                      /\ (StrTruthy(request.message) \/ StrTruthy(request.image_base64))
        m == IF fromBody THEN request.message ELSE request.q_message
    IN IF IsBlank(m) THEN DefaultImageMessage ELSE m

VisionEvents(type) == {i \in 1..Len(events) : events[i].type = type}

\* C10: when the vision collaborator call raised, one vision_error event is
\* yielded (and no vision_analysis event), the request goes on to open the
\* upstream connection, and the query is exactly "[User ID: <uid>] <message>".
C10_VisionFailureNonFatal ==
    (visionCalls = 1 /\ vision_error # "")
    => /\ Cardinality(VisionEvents("vision_error")) = 1
       /\ VisionEvents("vision_analysis") = {}
       /\ \A i \in VisionEvents("vision_error") :
             /\ events[i].data = [error |-> vision_error]
             /\ i = 2 /\ events[1].type = "vision_analyzing"
       /\ vision_context = ""
       /\ QueryBuilt => query = "[User ID: " \o uid \o "] " \o EffectiveMessage
       /\ \/ pc = "connect" /\ connOpened = 0
          \/ pc \in {"reading_error_body", "streaming", "finishing", "done"}
                /\ connOpened = 1

\* C10 witness: the call raised, the upstream stream was then forwarded to its
\* completion event.
C10_Witness ==
    /\ visionCalls = 1 /\ vision_error # ""
    /\ ending = "completion" /\ Len(frames) = 1
    /\ Len(events) = 4
    /\ events[2].type = "vision_error"
    /\ events[3].type = "conversation_started"
    /\ events[4].type = "completion"

\* What the client receives when the whole body arrives as a single chunk.
RECURSIVE DrainAll(_, _, _, _, _, _)
DrainAll(buf, etype, ledger, conv, out, seen) ==
    LET r == Drain(buf, etype, ledger, conv, out, seen)
    IN IF r.raised # "none" \/ NewlineAt(r.buffer) = 0 THEN r
       ELSE DrainAll(r.buffer, r.current_event_type, r.steps, r.conversation_id,
                     r.out, r.lines)

SingleChunkEvents(body) ==
    LET decoded == Utf8Decode(body)
        r == DrainAll(decoded.text, << >>, << >>, "", << >>, << >>)
    IN IF ~decoded.ok THEN << FailureEvent("exception") >>
       ELSE IF r.raised # "none" THEN r.out \o << FailureEvent("exception") >>
       ELSE r.out \o << CompletionEvent(r.conversation_id, r.steps) >>

\* C2 (chunking invariance): however the body is split into chunks, once it
\* has been read the client has received the events it receives when the body
\* arrives as one chunk.
C2_ChunkingInvariance ==
    (pc = "done" /\ pos > 0 /\ ending \in {"completion", "raised"})
    => events = SingleChunkEvents(upstream)

AllVisionEvents ==
    VisionEvents("vision_analyzing") \cup VisionEvents("vision_analysis")
        \cup VisionEvents("vision_error")

\* C11 (Scenario C): a request with an image, no pre-supplied analysis and a
\* vision collaborator that is not configured yields no vision event, makes
\* no collaborator call, and its query is "[User ID: <uid>] " followed by
\* the text exactly as the client sent it.
C11_ScenarioC ==
    (QueryBuilt /\ request.has_body /\ StrTruthy(request.image_base64)
        /\ ~request.vision_analysis.present /\ ~vision_ready)
    => /\ AllVisionEvents = {}
       /\ visionCalls = 0
       /\ query = "[User ID: " \o request.user_id \o "] " \o request.message

\* C12: a request that carries a (non-empty) pre-supplied vision_analysis
\* never calls the vision collaborator and never yields vision_analyzing.
C12_PreanalysisSkipsCall ==
    (request.has_body /\ AnalysisTruthy(request.vision_analysis))
    => /\ visionCalls = 0
       /\ VisionEvents("vision_analyzing") = {}

GenericVisionError(type) == "Image analysis unavailable: " \o type

\* C13 (Scenario D): a collaborator call that raises with "503" in its text
\* leads to the warming-up message, any other failure to the generic message
\* "Image analysis unavailable: <type>", and the two differ; after a
\* warming-up failure exactly one vision_error event carrying that message
\* has been yielded, no vision_analysis event, the query has no vision
\* prefix and the request goes on into the streaming phase.
C13_WarmingUp ==
    /\ \A agent \in {DefaultAgent, "trip-planner-agent"} : \A o \in RaiseOutcomes :
          LET v == AfterVisionCall(agent, o)
          IN /\ v.vision_description = "" /\ v.vision_context = ""
             /\ v.vision_error # ""
             /\ Mentions503(o.exc_text) <=> v.vision_error = WarmingUpMessage
             /\ ~Mentions503(o.exc_text) <=> v.vision_error = GenericVisionError(o.exc_type)
    /\ (visionCalls = 1 /\ vision_error = WarmingUpMessage)
       => /\ Cardinality(VisionEvents("vision_error")) = 1
          /\ \A i \in VisionEvents("vision_error") :
                events[i].data = [error |-> WarmingUpMessage]
          /\ VisionEvents("vision_analysis") = {}
          /\ QueryBuilt => query = "[User ID: " \o uid \o "] " \o msg
          /\ \/ pc = "connect" /\ ending = "none"
             \/ pc \in {"reading_error_body", "streaming"} /\ ending = "none" /\ connOpen
             \/ pc \in {"finishing", "done"} /\ ending # "none"

\* C13 witness: the call raised with 503, the warming-up event was yielded
\* and the upstream stream was forwarded to its completion event.
C13_Witness ==
    /\ visionCalls = 1 /\ vision_error = WarmingUpMessage
    /\ ending = "completion" /\ Len(frames) = 1
    /\ Len(events) = 4
    /\ events[2] = format_sse_event("vision_error", [error |-> WarmingUpMessage])
    /\ events[3].type \in {"conversation_started", "tool_call", "message_complete"}
    /\ events[4].type = "completion"

\* The request has no text in its body, no text in the legacy query
\* parameter, and no image.
SuppliesNothing(r) ==
    /\ r.has_body => (r.message = "" /\ r.image_base64 = "ABSENT")
    /\ r.q_message \in {"ABSENT", ""}

\* C14 (bad input): once chat_endpoint has handled a request with neither
\* text nor image, the request is rejected with HTTP 400 and nothing else has
\* happened or will: no client event, no collaborator call, no query and no
\* upstream connection.
C14_BadInputRejected ==
    (SuppliesNothing(request) /\ pc # "received")
    => /\ pc = "rejected" /\ ending = "http400"
       /\ events = << >>
       /\ visionCalls = 0
       /\ connOpened = 0 /\ ~connOpen
       /\ query = "ABSENT"

\* C14 witness: a JSON body with an empty message, a pre-supplied analysis
\* but no image, and no legacy parameter, was rejected.
C14_Witness ==
    /\ pc = "rejected" /\ ending = "http400"
    /\ request.has_body /\ request.message = "" /\ request.image_base64 = "ABSENT"
    /\ request.vision_analysis = FullAnalysis
    /\ request.q_message = "ABSENT"

\* A tool_call frame (rule 5) whose call id an earlier tool_call frame with a
\* tool_id carried already.
AlreadySeen(line) ==
    FrameRule(line) = 5 /\ ToolCallFramesWithTool(line.payload.tool_call_id) # {}

\* The frames the proxy swallows: transient reasoning, tool_call without
\* tool_id, tool_call for a call id seen before.
Swallowed(line) ==
    \/ FrameRule(line) = 3 /\ IsTransient(line.payload)
    \/ FrameRule(line) = 5 /\ ~Truthy(line.payload.tool_id)
    \/ AlreadySeen(line)

\* C15 (1:1 forwarding in order): handling one upstream line appends at most
\* one event to what the client has received and changes nothing before it;
\* a frame of rule 2..8 that is not swallowed appends exactly one event, of
\* the type of its rule; a swallowed frame, an event line and a line whose
\* JSON does not parse append none.
C15_Forwarding ==
    [][\A line \in Lines \cup NullIdLines :
          (pc = "streaming" /\ frames' = Append(frames, line))
          => /\ Len(events') <= Len(events) + 1
             /\ SubSeq(events', 1, Len(events)) = events
             /\ (FrameRule(line) \in 2..8 /\ ~Swallowed(line))
                   => /\ Len(NewEvents) = 1
                      /\ NewEvents[1].type = RuleEventType(FrameRule(line))
             /\ Swallowed(line) => NewEvents = << >>
             /\ (line.kind # "data" \/ ~JsonParses(line)) => NewEvents = << >>
      ]_vars

\* The tool_call events the client has received for call id c.
ToolCallEvents(evs, c) ==
    {i \in 1..Len(evs) : evs[i].type = "tool_call" /\ evs[i].data.tool_call_id = c}

\* C16 (first sight): a tool_call frame with a tool_id for a call id not seen
\* before appends one tool_call step with empty results and yields exactly
\* one tool_call event; one for a call id seen before yields no event and
\* appends no step; the client never has two tool_call events for one call id.
C16_FirstSight ==
    [][\A line \in Lines \cup NullIdLines :
          (pc = "streaming" /\ frames' = Append(frames, line)
              /\ FrameRule(line) = 5 /\ Truthy(line.payload.tool_id))
          => LET p == line.payload
             IN /\ IF AlreadySeen(line)
                   THEN /\ NewEvents = << >>
                        /\ Len(steps') = Len(steps)
                   ELSE /\ Len(NewEvents) = 1
                        /\ NewEvents[1].type = "tool_call"
                        /\ NewEvents[1].data.tool_call_id = p.tool_call_id
                        /\ NewEvents[1].data.tool_id = p.tool_id
                        /\ Len(steps') = Len(steps) + 1
                        /\ SubSeq(steps', 1, Len(steps)) = steps
                        /\ steps'[Len(steps')].type = "tool_call"
                        /\ steps'[Len(steps')].tool_call_id = p.tool_call_id
                        /\ steps'[Len(steps')].tool_id = p.tool_id
                        /\ steps'[Len(steps')].results = "[]"
                /\ \A c \in CallIds \cup {"NULL"} :
                      Cardinality(ToolCallEvents(events', c)) <= 1
      ]_vars

\* A data line whose content json.loads rejects.
IsMalformed(line) == line.kind = "data" /\ ~JsonParses(line)

WithoutMalformed(ls) == SelectSeq(ls, LAMBDA l : ~IsMalformed(l))

\* What a fresh request has after the lines ls, handled one after the other
\* up to the first that raises.
RECURSIVE Replay(_, _)
Replay(ls, st) ==
    IF ls = << >> \/ st.raised # "none" THEN st
    ELSE LET r == ProcessLine(Head(ls), st.current_event_type, st.steps,
                              st.conversation_id)
         IN Replay(Tail(ls), [r EXCEPT !.out = st.out \o r.out])

Fresh == [current_event_type |-> << >>] @@ Outcome(<< >>, "", << >>, "none")

\* C17 (malformed frame): handling a data line with invalid JSON changes
\* nothing but the history of lines read: no event, same ledger, same
\* conversation id, same current event type, and the request goes on
\* reading; at every moment the request state and the events received are
\* those of the same lines with the malformed ones left out, and a stream
\* that ends gracefully ends with the completion event of those lines.
C17_MalformedSkipped ==
    /\ [][(pc = "streaming" /\ \E line \in Lines :
                 IsMalformed(line) /\ frames' = Append(frames, line))
            => /\ UNCHANGED << events, steps, conversation_id, current_event_type,
                               buffer, pc, ending, connOpen >>
          ]_vars
    /\ [](LET r == Replay(WithoutMalformed(frames), Fresh)
          IN /\ steps = r.steps
             /\ conversation_id = r.conversation_id
             /\ current_event_type = r.current_event_type
             /\ pc = "streaming" => events = r.out
             /\ ending = "completion"
                   => events = r.out \o << CompletionEvent(r.conversation_id, r.steps) >>)

\* C17 witness: a malformed line between a conversation id frame and a
\* tool_call frame, and the stream ended with its completion event.
C17_Witness ==
    /\ ending = "completion" /\ Len(frames) = 3
    /\ FrameRule(frames[1]) = 2 /\ IsMalformed(frames[2]) /\ FrameRule(frames[3]) = 5
    /\ Len(events) = 3 /\ Len(steps) = 1
    /\ events[1].type = "conversation_started"
    /\ events[2].type = "tool_call"
    /\ events[3].type = "completion"

VisionTypes == {"vision_analyzing", "vision_analysis", "vision_error"}

\* C18 (phase ordering): the vision events are a prefix of the response;
\* vision_analyzing is its first event, yielded before the collaborator is
\* called, and the event reporting the call's outcome follows it; the
\* upstream connection is opened at most once, only by a request that has
\* left the vision phase (after the call when vision_analyzing was yielded),
\* and every response that has ended has opened it exactly once.
C18_PhaseOrdering ==
    /\ [](/\ \A i, j \in 1..Len(events) :
                (i < j /\ events[j].type \in VisionTypes) => events[i].type \in VisionTypes
          /\ VisionEvents("vision_analyzing") \subseteq {1}
          /\ pc = "vision_call" => (events[1].type = "vision_analyzing" /\ visionCalls = 0)
          /\ visionCalls <= 1
          /\ visionCalls = 1
                => /\ events[1].type = "vision_analyzing"
                   /\ VisionEvents("vision_analysis") \cup VisionEvents("vision_error")
                         \subseteq {2}
          /\ (VisionEvents("vision_analyzing") # {} /\ QueryBuilt) => visionCalls = 1
          /\ connOpened <= 1
          /\ connOpened = 1
                => pc \in {"reading_error_body", "streaming", "finishing", "done"}
          /\ pc \in {"finishing", "done"} => connOpened = 1
          /\ (\E i \in 1..Len(events) : events[i].type \notin VisionTypes)
                => connOpened = 1)
    /\ [][connOpened' # connOpened
            => /\ pc = "connect" /\ connOpened = 0 /\ connOpened' = 1
               /\ SubSeq(events', 1, Len(events)) = events
               /\ \A i \in Len(events) + 1 .. Len(events') :
                     events'[i].type \notin VisionTypes
               /\ UNCHANGED visionVars
          ]_vars

\* C18 witness: vision_analyzing, the call, vision_analysis, then the
\* upstream events up to the completion event, over one connection.
C18_Witness ==
    /\ ending = "completion" /\ visionCalls = 1 /\ connOpened = 1
    /\ Len(events) = 4
    /\ events[1].type = "vision_analyzing"
    /\ events[2].type = "vision_analysis"
    /\ events[3].type = "tool_call"
    /\ events[4].type = "completion"

\* C19 (cancellation): the step that cancels a request yields no event and
\* reads no upstream line or byte; a cancelled request never yields an event
\* again (no error event, no completion event) and never reads again; its
\* connection is released: in the cancelling step when the request was
\* waiting (collaborator call, upstream answer or next chunk), and
\* eventually, by the finalizer, when an event was being delivered.
C19_Cancellation ==
    /\ [](cancelRequested => (pc = "cancelled" /\ ending = "cancelled"))
    /\ [][/\ cancelRequested
                => /\ UNCHANGED << reqVars, visionVars, pc, ending, connOpened,
                                  query, buffer, current_event_type, steps,
                                  conversation_id, events, frames, byteVars,
                                  error_chunks >>
                   /\ connOpen' => connOpen
          /\ (~cancelRequested /\ cancelRequested')
                => /\ pc \in {"vision_call", "connect", "reading_error_body",
                              "streaming", "finishing"}
                   /\ UNCHANGED << events, frames, pos, buffer, steps,
                                   conversation_id, error_chunks >>
                   /\ connOpen' => (connOpen /\ held)
         ]_vars
    /\ [](cancelRequested => <>(~connOpen))

\* C19 witness: the request was cancelled while the upstream stream was being
\* forwarded, after the vision events and one upstream event.
C19_Witness ==
    /\ cancelRequested /\ ending = "cancelled" /\ connOpened = 1 /\ ~connOpen
    /\ Len(frames) = 1 /\ visionCalls = 1
    /\ Len(events) = 3
    /\ events[1].type = "vision_analyzing"
    /\ events[3].type = "conversation_started"

\* C19 witness, vision phase: cancelled while the collaborator call was
\* awaited; the upstream connection was never opened.
C19_WitnessVision ==
    /\ cancelRequested /\ ending = "cancelled" /\ connOpened = 0 /\ visionCalls = 0
    /\ Len(events) = 1 /\ events[1].type = "vision_analyzing"

\* The locals and events a call has when it is the only one running and has
\* read the lines ls; how says whether it is still reading or has ended.
AloneAfter(ls, how) ==
    LET r == Replay(ls, Fresh)
    IN [current_event_type |-> r.current_event_type, steps |-> r.steps,
        conversation_id |-> r.conversation_id,
        events |-> IF how = "completion"
                   THEN r.out \o << CompletionEvent(r.conversation_id, r.steps) >>
                   ELSE r.out]

\* C20 (request isolation): with two calls interleaved in any order, each
\* call's current event type, ledger, conversation id and events, its
\* completion event included, are those it has when it runs alone on its own
\* lines; a step of one call changes nothing of the other.
C20_Isolation ==
    /\ []((pc = "streaming" \/ ending = "completion")
            => LET a == AloneAfter(frames, ending)
               IN /\ current_event_type = a.current_event_type
                  /\ steps = a.steps
                  /\ conversation_id = a.conversation_id
                  /\ events = a.events)
    /\ [](peer.pc \in {"streaming", "done"}
            => LET b == AloneAfter(peer.frames, peer.ending)
               IN /\ peer.current_event_type = b.current_event_type
                  /\ peer.steps = b.steps
                  /\ peer.conversation_id = b.conversation_id
                  /\ peer.events = b.events)
    /\ [][/\ peer' # peer
                => UNCHANGED << pc, ending, buffer, current_event_type, steps,
                               conversation_id, events, frames >>
          /\ << pc, ending, buffer, current_event_type, steps, conversation_id,
                events, frames >>' # << pc, ending, buffer, current_event_type,
                                       steps, conversation_id, events, frames >>
                => peer' = peer
         ]_vars

\* C20 witness: both calls ended, each with the conversation id and the
\* steps of its own two lines.
C20_Witness ==
    /\ ending = "completion" /\ peer.ending = "completion"
    /\ Len(frames) = 2 /\ Len(peer.frames) = 2
    /\ conversation_id = "c1" /\ Len(steps) = 1 /\ steps[1].type = "reasoning"
    /\ peer.conversation_id = "c2" /\ Len(peer.steps) = 1
    /\ peer.steps[1].type = "tool_call"
    /\ events[Len(events)].data.steps = steps
    /\ peer.events[Len(peer.events)].data.steps = peer.steps

\* A tool_call frame with empty params whose call id matches no step.
EmptyParamsFirst(line) ==
    /\ FrameRule(line) = 5
    /\ ~Truthy(ParamsOf(line))
    /\ StepsFor(steps, line.payload.tool_call_id) = {}

\* C21 as stated: a tool_call frame with empty params whose call id matches
\* no step is dropped: no step is appended and no event is yielded.
C21_EmptyParamsDropped_AsStated ==
    [][\A line \in Lines :
          (pc = "streaming" /\ frames' = Append(frames, line) /\ EmptyParamsFirst(line))
          => /\ steps' = steps
             /\ NewEvents = << >>
      ]_vars

\* C21 amended: a tool_call frame with a tool_id and empty params whose call
\* id matches no step appends a tool_call step with those empty params and
\* yields one tool_call event with them (only a frame without tool_id is
\* dropped); the completion event carries the ledger, so the call appears in
\* its steps.
C21_EmptyParamsRecorded ==
    /\ [][\A line \in Lines :
            (pc = "streaming" /\ frames' = Append(frames, line) /\ EmptyParamsFirst(line))
            => LET p == line.payload
               IN IF Truthy(p.tool_id)
                  THEN /\ steps' = Append(steps,
                                      ToolCallStep(p.tool_call_id, p.tool_id, "{}"))
                       /\ NewEvents = << format_sse_event("tool_call",
                                            [tool_call_id |-> p.tool_call_id,
                                             tool_id |-> p.tool_id, params |-> "{}"]) >>
                  ELSE /\ steps' = steps
                       /\ NewEvents = << >>
         ]_vars
    /\ [](ending = "completion"
            => /\ events[Len(events)] = CompletionEvent(conversation_id, steps)
               /\ \A c \in CallIds :
                     (\E i \in ToolCallFramesWithTool(c) :
                         \A j \in ToolCallFramesWithTool(c) : ~Truthy(ParamsOf(frames[j])))
                     => \E k \in StepsFor(steps, c) : steps[k].params = "{}")

\* C21 witness: a call without a params key and one more line; the
\* completion event carries the step with empty params.
C21_Witness ==
    /\ ending = "completion" /\ Len(frames) = 2
    /\ ToolCallFramesWithTool("t2") = {1}
    /\ frames[1].payload.params = "ABSENT"
    /\ Len(steps) = 1 /\ steps[1].params = "{}" /\ steps[1].tool_call_id = "t2"
    /\ events[1].type = "tool_call" /\ events[1].data.params = "{}"
    /\ events[Len(events)].data.steps = steps

\* The tool_call steps recorded for call id c.
ToolCallStepsFor(ledger, c) ==
    {k \in 1..Len(ledger) : ledger[k].type = "tool_call" /\ ledger[k].tool_call_id = c}

\* C22 (unmatched tool result): a tool_result frame whose call id matches no
\* recorded tool_call step yields exactly one tool_result event with that
\* call id and those results, and leaves the ledger as it was.
C22_UnmatchedResult ==
    [][\A line \in Lines \cup NullIdLines :
          (pc = "streaming" /\ frames' = Append(frames, line) /\ FrameRule(line) = 4
              /\ ToolCallStepsFor(steps, line.payload.tool_call_id) = {})
          => /\ NewEvents = << format_sse_event("tool_result",
                                  [tool_call_id |-> line.payload.tool_call_id,
                                   results |-> line.payload.results]) >>
             /\ steps' = steps
      ]_vars

\* Positions of the lines that start a step: a non-transient reasoning frame,
\* or the first tool_call frame with a tool_id for its call id.
StepMakers ==
    {i \in 1..Len(frames) :
        \/ FrameRule(frames[i]) = 3 /\ ~IsTransient(frames[i].payload)
        \/ /\ FrameRule(frames[i]) = 5 /\ Truthy(frames[i].payload.tool_id)
           /\ \A j \in ToolCallFramesWithTool(frames[i].payload.tool_call_id) : i <= j}

\* The k-th smallest element of the set of positions S.
Nth(S, k) == CHOOSE i \in S : Cardinality({j \in S : j <= i}) = k

\* C23 (first-seen order): a step of the request never disappears and never
\* changes its position, type, call id or reasoning text, and the ledger
\* grows by at most one step at its end per line; the steps are, in order,
\* those started by the lines in StepMakers, one per non-transient reasoning
\* frame (equal texts included) and one per call id.
C23_FirstSeenOrder ==
    /\ [][pc = "streaming"
            => /\ Len(steps) <= Len(steps') /\ Len(steps') <= Len(steps) + 1
               /\ \A k \in 1..Len(steps) :
                     /\ steps'[k].type = steps[k].type
                     /\ steps'[k].tool_call_id = steps[k].tool_call_id
                     /\ steps'[k].tool_id = steps[k].tool_id
                     /\ steps'[k].reasoning = steps[k].reasoning
         ]_vars
    /\ [](/\ Len(steps) = Cardinality(StepMakers)
          /\ \A k \in 1..Len(steps) :
                LET p == frames[Nth(StepMakers, k)].payload
                IN IF FrameRule(frames[Nth(StepMakers, k)]) = 3
                   THEN steps[k].type = "reasoning" /\ steps[k].reasoning = p.reasoning
                   ELSE /\ steps[k].type = "tool_call"
                        /\ steps[k].tool_call_id = p.tool_call_id
          /\ ending = "completion"
                => events[Len(events)].data.steps = steps)

\* C23 witness: reasoning r1, a tool call, reasoning r1 again: three steps
\* in that order in the completion event.
C23_Witness ==
    /\ ending = "completion" /\ Len(frames) = 3
    /\ StepMakers = {1, 2, 3}
    /\ frames[1] = frames[3] /\ FrameRule(frames[1]) = 3
    /\ Len(steps) = 3
    /\ steps[1] = steps[3] /\ steps[1].type = "reasoning"
    /\ steps[2].type = "tool_call"
    /\ events[Len(events)].data.steps = steps

\* A data line whose JSON parses to something other than a frame of the
\* expected shape: not an object at top level, a "data" envelope that is not
\* an object, or a "round" value that is null or a number.
OddShape(line) ==
    /\ line.kind = "data" /\ JsonParses(line)
    /\ \/ line.payload.shape # "object"
       \/ line.payload.envelope \notin {"ABSENT", "object"}
       \/ FirstRule(line.payload) = 8 /\ line.payload.round \in {"NULL", "7"}

\* C24: a data line of unexpected shape is skipped: it yields no event,
\* changes neither ledger nor conversation id, and the request goes on
\* reading; a stream that ends gracefully after it ends with the completion
\* event.
C24_ShapeSkipped ==
    /\ [][\A line \in Lines \cup ShapeLines :
            (pc = "streaming" /\ frames' = Append(frames, line) /\ OddShape(line))
            => /\ NewEvents = << >>
               /\ UNCHANGED << steps, conversation_id, pc, ending >>
         ]_vars
    /\ []((pc = "done" /\ AnsweredOk /\ ending \notin FailureKinds)
            => events[Len(events)].type = "completion")

\* C25 (reasoning steps are immutable): once a step of type reasoning is in
\* the ledger, no later frame changes it: it keeps its position and every
\* field, and never acquires params or results.
C25_ReasoningImmutable ==
    /\ [][\A i \in 1..Len(steps) :
            steps[i].type = "reasoning"
            => Len(steps') >= i /\ steps'[i] = steps[i]
         ]_vars
    /\ [](\A i \in 1..Len(steps) :
            steps[i].type = "reasoning"
            => steps[i].params = "ABSENT" /\ steps[i].results = "ABSENT")

\* C26 (the vision outcome is always reported): a response that yielded
\* vision_analyzing and has left the vision phase carries exactly one of
\* vision_analysis and vision_error, directly after vision_analyzing and
\* before every upstream-derived event, whatever the collaborator call
\* returned or raised.
C26_VisionOutcomeReported ==
    (VisionEvents("vision_analyzing") # {} /\ QueryBuilt)
    => /\ Cardinality(VisionEvents("vision_analysis") \cup VisionEvents("vision_error")) = 1
       /\ VisionEvents("vision_analysis") = {} \/ VisionEvents("vision_error") = {}
       /\ \A i \in VisionEvents("vision_analysis") \cup VisionEvents("vision_error") :
             /\ i = 2
             /\ \A j \in 1..Len(events) : events[j].type \notin VisionTypes => i < j

\* C27 (unterminated final line): when the upstream body ends, what is left
\* in the buffer after the last newline is not parsed: the end of the body
\* reads no line, changes neither ledger nor conversation id and yields the
\* completion event only; a body ending in an unterminated
\* data: {"message_content":"Hello"} line yields no message_complete event.
C27_UnterminatedDiscarded ==
    /\ [][(pc = "streaming" /\ pc' = "finishing" /\ ending' = "completion")
            => /\ UNCHANGED << frames, steps, conversation_id, buffer >>
               /\ events' = Append(events, CompletionEvent(conversation_id, steps))
         ]_vars
    /\ []((upstream = BodyUnterminated /\ pc \in {"finishing", "done"}
                /\ ending = "completion")
            => /\ frames = << DataLine([Obj EXCEPT !.text_chunk = "Hel"]) >>
               /\ \A i \in 1..Len(events) : events[i].type # "message_complete"
               /\ buffer = DataMarker \o JsonMessage)

\* C27 witness: the body ended while the buffer held a complete data line
\* without its newline, and the completion event was yielded.
C27_Witness ==
    /\ upstream = BodyUnterminated /\ pos = Len(upstream)
    /\ pc = "done" /\ ending = "completion"
    /\ ParseLine(buffer) = DataLine([Obj EXCEPT !.message_content = "Hello"])
    /\ events[Len(events)].type = "completion"

\* The step that ends a non-200 answer: the end of its body, or a transport
\* failure while the body is read.
NonOkStep == pc = "reading_error_body" /\ pc' = "finishing"

\* The upstream answered with a status other than 200.
NonOkAnswered ==
    \/ pc = "reading_error_body"
    \/ error_chunks # << >>
    \/ ending = "non200"
    \/ ending = "raised" /\ frames = << >>

\* What a non-200 answer never yields.
UpstreamDerived(e) == e.type \notin {"error"} \cup VisionTypes

\* C28 as stated: a non-200 answer yields exactly one error event, which
\* carries the upstream body, and nothing else.
C28_NonOk_AsStated ==
    [][NonOkStep
        => /\ Utf8Decode(Join(error_chunks)).ok
           /\ NewEvents = << ApiErrorEvent(Utf8Decode(Join(error_chunks)).text) >>
      ]_vars

\* C28 (upstream non-200): a non-200 answer yields exactly one event, an
\* error event, and nothing else: no chunk or line of the body is read as a
\* frame, ledger and conversation id stay as they were, and the response has
\* no conversation_started, step or completion event. The error event
\* carries the upstream body, whole, when the body is valid UTF-8; for a
\* body that is not, it is the "Unexpected error" event, and for a transport
\* failure while the body is read, that failure's event.
C28_NonOk ==
    /\ [][NonOkStep
            => /\ Len(NewEvents) = 1
               /\ NewEvents[1].type = "error"
               /\ UNCHANGED << frames, steps, conversation_id, buffer, error_chunks >>
               /\ LET body == Join(error_chunks)
                  IN IF ending' \in FailureKinds
                     THEN NewEvents = << FailureEvent(ending') >>
                     ELSE IF Utf8Decode(body).ok
                     THEN /\ ending' = "non200"
                          /\ body \in ErrorBodies
                          /\ NewEvents = << ApiErrorEvent(Utf8Decode(body).text) >>
                     ELSE /\ ending' = "raised"
                          /\ NewEvents = << FailureEvent("exception") >>
         ]_vars
    /\ [][(pc = "reading_error_body" /\ pc' # "finishing")
            => UNCHANGED << events, frames, steps, conversation_id, buffer >>
         ]_vars
    /\ [](NonOkAnswered
            => /\ frames = << >> /\ steps = << >> /\ conversation_id = ""
               /\ \A i \in 1..Len(events) : ~UpstreamDerived(events[i])
               /\ Cardinality({i \in 1..Len(events) : events[i].type = "error"})
                     = IF pc \in {"finishing", "done"} THEN 1 ELSE 0)

\* C28 witness: the upstream answered 500 with a body that reads like a
\* frame and arrived in two chunks; the response is the one error event
\* carrying that body.
C28_Witness ==
    /\ pc = "done" /\ ending = "non200" /\ connOpened = 1
    /\ frames = << >>
    /\ Len(error_chunks) = 2
    /\ events = << ApiErrorEvent(BodyErrorFrame) >>

\* C29 (status propagation in the synchronous extraction endpoints): when
\* the upstream call answers with a status S other than 200, the client
\* receives HTTP status S; the client receives 504 only after a timeout, 503
\* only after a connection error.
C29_StatusPropagation ==
    /\ []((sync.pc = "done" /\ sync.upstream_status \notin {0, 200})
            => sync.status = sync.upstream_status)
    /\ [][(sync.pc # "done" /\ sync'.pc = "done" /\ sync'.upstream_status \in {0, 200})
            => sync'.status \in {200, 500, 503, 504}
         ]_vars

VlmEnded == vlm.pc \in {"returned", "raised"}
IsTransientResult(r) == r.kind = "exception" /\ IsTransientError(r.exc_type)
IsOkResult(r) == r.kind = "response" /\ r.status = 200 /\ r.content # "ABSENT"

\* C30 (bounded vision retry): one analyze_image call makes at most 2 HTTP
\* attempts and always ends; a second attempt is made only after a first
\* that failed with a timeout or a connect error; a non-200 answer or any
\* other exception is raised at once, with no further attempt; after two
\* transient failures the last transient error is raised; a 200 answer on
\* either attempt returns its description and no further attempt is made.
C30_BoundedRetry ==
    /\ [](/\ Len(vlm.made) <= 2 /\ vlm.attempt <= 2
          /\ Len(vlm.made) = 2 => IsTransientResult(vlm.made[1])
          /\ \A k \in 1..Len(vlm.made) :
                LET r == vlm.made[k]
                IN /\ ~IsTransientResult(r) => (k = Len(vlm.made) /\ VlmEnded)
                   /\ IsOkResult(r) => vlm.outcome = VlmOutcome("returned", "", r.content)
                   /\ (r.kind = "response" /\ r.status # 200)
                        => vlm.outcome = VlmOutcome("raised", "ValueError",
                                                   JinaErrorText(r.status))
                   /\ (r.kind = "exception" /\ ~IsTransientError(r.exc_type))
                        => vlm.outcome = VlmOutcome("raised", r.exc_type, "")
          /\ (Len(vlm.made) = 2 /\ IsTransientResult(vlm.made[2]))
                => vlm.outcome = VlmOutcome("raised", vlm.made[2].exc_type, "")
          /\ (Len(vlm.made) = 1 /\ IsTransientResult(vlm.made[1]))
                => (vlm.pc = "attempt" /\ vlm.attempt = 2))
    /\ [][(vlm.pc = "attempt" /\ vlm' # vlm)
            => /\ Len(vlm'.made) = Len(vlm.made) + 1
               /\ vlm'.pc \in {"returned", "raised"} \/ vlm'.attempt = vlm.attempt + 1
               /\ vlm'.calls = vlm.calls
         ]_vars
    /\ [](vlm.pc = "attempt" => <>VlmEnded)

\* C30 witness: the first attempt timed out, the second could not connect,
\* and the call raised the second error.
C30_Witness ==
    /\ vlm.made = << VlmException("ReadTimeout"), VlmException("ConnectError") >>
    /\ vlm.pc = "raised"
    /\ vlm.outcome = VlmOutcome("raised", "ConnectError", "")

====
